---- MODULE Spec2Model ----
(***************************************************************************)
(* A model of the CNS orchestrator (src/index.js): the watch-event         *)
(* classifier, the debounced rebuild, the matchmaker, the connection       *)
(* writer and the property propagator/updater, together with the key-value *)
(* store they talk to.                                                     *)
(*                                                                         *)
(* Representation.  A JavaScript key such as 'cns/N/nodes/A/name' is held  *)
(* as the sequence of its '/'-separated segments, i.e. as key.split('/');  *)
(* joining with '/' is the inverse, so string concatenation with '/'       *)
(* between the pieces is sequence concatenation.  Values are held the same *)
(* way (the value '1' is <<"1">>, an endpoint prefix is a longer           *)
(* sequence).  A segment is a TLA+ string; CharTable gives the characters  *)
(* of every segment the model uses, and the wildcard matcher works on      *)
(* those characters.                                                       *)
(***************************************************************************)
EXTENDS Naturals, Sequences, FiniteSets, TLC

VARIABLES
  store,      \* the etcd key space: a function from keys to values
  cache,      \* var cache: the entries in JavaScript property order
  events,     \* watch events emitted by the store, not yet handled
  timer,      \* var timer: <<handle>> of the debounce timer, <<>> when undefined
  armed,      \* the timeouts the runtime holds (setTimeout minus clearTimeout)
  tasks,      \* the async invocations suspended at an awaited put
  nextId,     \* the number of ids short.generate() has returned
  menu,       \* the mutations other clients of the store may make
  external,   \* how many of them are still to come
  calls,      \* history: rebuild() calls since the timer last fired
  settled,    \* history: the last build started on a cache equal to the store
              \* and the store's content was not changed from outside since
  last,       \* history: what the most recent step did
  client,     \* var client: "open" once created, undefined before and after
  watcher,    \* var watcher, and the watch it stands for at the store
  pc,         \* where main() and exit() stand
  faults,     \* how many faults (a signal, a watcher error, a put the store
              \* rejects) are still to come
  errors,     \* history: what error() has logged
  input,      \* the arguments of the pure function under check
  output      \* its result

vars == <<store, cache, events, timer, armed, tasks, nextId, menu, external,
          calls, settled, last, client, watcher, pc, faults, errors, input, output>>

lifeVars == <<client, watcher, pc, faults, errors>>

(***************************************************************************)
(* JavaScript values the model needs besides strings.                      *)
(***************************************************************************)
\* null and undefined where the code holds a segment (a role, parts[i]); a value
\* that is undefined, as cache[key] of an absent key is, is <<undefined>>.
null == "<null>"
undefined == "<undefined>"

(***************************************************************************)
(* Characters.                                                             *)
(***************************************************************************)
LowerCase == <<"a","b","c","d","e","f","g","h","i","j","k","l","m",
               "n","o","p","q","r","s","t","u","v","w","x","y","z">>
UpperCase == <<"A","B","C","D","E","F","G","H","I","J","K","L","M",
               "N","O","P","Q","R","S","T","U","V","W","X","Y","Z">>

\* The characters '.' does not match in a regular expression without the s flag.
LineTerminators == {"\n", "\r"}

\* The characters esc() puts a backslash in front of.
EscapedChars == {".", "*", "+", "?", "^", "=", "!", ":", "$", "{", "}",
                 "(", ")", "|", "[", "]", "/", "\\"}

\* Canonicalisation of a character under the regular expression's i flag.
Canonicalize(ch) ==
  IF \E i \in 1..26 : LowerCase[i] = ch
    THEN UpperCase[CHOOSE i \in 1..26 : LowerCase[i] = ch]
    ELSE ch

(***************************************************************************)
(* The characters of every segment of the model.                           *)
(***************************************************************************)
CharTable ==
  { <<"cns", <<"c", "n", "s">>>>,
    <<"name", <<"n", "a", "m", "e">>>>,
    <<"orchestrator", <<"o", "r", "c", "h", "e", "s", "t", "r", "a", "t", "o", "r">>>>,
    <<"profiles", <<"p", "r", "o", "f", "i", "l", "e", "s">>>>,
    <<"versions", <<"v", "e", "r", "s", "i", "o", "n", "s">>>>,
    <<"properties", <<"p", "r", "o", "p", "e", "r", "t", "i", "e", "s">>>>,
    <<"provider", <<"p", "r", "o", "v", "i", "d", "e", "r">>>>,
    <<"consumer", <<"c", "o", "n", "s", "u", "m", "e", "r">>>>,
    <<"nodes", <<"n", "o", "d", "e", "s">>>>,
    <<"contexts", <<"c", "o", "n", "t", "e", "x", "t", "s">>>>,
    <<"version", <<"v", "e", "r", "s", "i", "o", "n">>>>,
    <<"scope", <<"s", "c", "o", "p", "e">>>>,
    <<"connections", <<"c", "o", "n", "n", "e", "c", "t", "i", "o", "n", "s">>>>,
    <<"allsystems", <<"a", "l", "l", "s", "y", "s", "t", "e", "m", "s">>>>,
    <<"bysystem", <<"b", "y", "s", "y", "s", "t", "e", "m">>>>,
    <<"yes", <<"y", "e", "s">>>>,
    <<"no", <<"n", "o">>>>,
    <<"N", <<"N">>>>,
    <<"M", <<"M">>>>,
    <<"A", <<"A">>>>,
    <<"B", <<"B">>>>,
    <<"X", <<"X">>>>,
    <<"Y", <<"Y">>>>,
    <<"p1", <<"p", "1">>>>,
    <<"x", <<"x">>>>,
    <<"1", <<"1">>>>,
    <<"2", <<"2">>>>,
    <<"version1", <<"v", "e", "r", "s", "i", "o", "n", "1">>>>,
    <<"version2", <<"v", "e", "r", "s", "i", "o", "n", "2">>>>,
    <<"versionundefined", <<"v", "e", "r", "s", "i", "o", "n", "u", "n", "d", "e", "f", "i", "n", "e", "d">>>>,
    <<"undefined", <<"u", "n", "d", "e", "f", "i", "n", "e", "d">>>>,
    <<"v1", <<"v", "1">>>>,
    <<"v2", <<"v", "2">>>>,
    <<"i1", <<"i", "1">>>>,
    <<"i2", <<"i", "2">>>>,
    <<"i3", <<"i", "3">>>>,
    <<"i4", <<"i", "4">>>>,
    <<"c1", <<"c", "1">>>>,
    <<"c2", <<"c", "2">>>>,
    <<"*", <<"*">>>>,
    <<"other", <<"o", "t", "h", "e", "r">>>>,
    <<"", <<>>>>,
    <<"a", <<"a">>>>,
    <<"b", <<"b">>>>,
    <<"c", <<"c">>>>,
    <<"cnsx", <<"c", "n", "s", "x">>>>,
    <<"network", <<"n", "e", "t", "w", "o", "r", "k">>>>,
    <<"ab", <<"a", "b">>>>,
    <<"aB", <<"a", "B">>>>,
    <<"a*", <<"a", "*">>>>,
    <<"*b", <<"*", "b">>>>,
    <<"a*b", <<"a", "*", "b">>>>,
    <<"a.b", <<"a", ".", "b">>>>,
    <<"axb", <<"a", "x", "b">>>>,
    <<"a\nb", <<"a", "\n", "b">>>>,
    <<".", <<".">>>>,
    <<"a+", <<"a", "+">>>>,
    <<"**", <<"*", "*">>>> }

Strings == { p[1] : p \in CharTable }

charsOf == [s \in Strings |-> (CHOOSE p \in CharTable : p[1] = s)[2]]

Chars(s) == charsOf[s]

\* The segment that consists of the given characters.
Segment(chars) == CHOOSE s \in Strings : charsOf[s] = chars

(***************************************************************************)
(* String.prototype.split and Array.prototype.join on character sequences. *)
(***************************************************************************)
RECURSIVE split(_, _)
split(s, sep) ==
  IF \A i \in 1..Len(s) : s[i] # sep
    THEN <<s>>
    ELSE LET i == CHOOSE j \in 1..Len(s) :
                    s[j] = sep /\ \A k \in 1..(j - 1) : s[k] # sep
         IN  <<SubSeq(s, 1, i - 1)>> \o split(SubSeq(s, i + 1, Len(s)), sep)

RECURSIVE join(_, _)
join(pieces, sep) ==
  IF Len(pieces) = 0 THEN <<>>
  ELSE IF Len(pieces) = 1 THEN pieces[1]
  ELSE pieces[1] \o sep \o join(Tail(pieces), sep)

(***************************************************************************)
(* match(), src/index.js 837-840:                                          *)
(*   const esc = (s) => s.replace(/([.*+?^=!:${}()|\[\]\/\\])/g, '\\$1');  *)
(*   return new RegExp('^' + filter.split('*').map(esc).join('.*') + '$',  *)
(*                     'i').test(text);                                    *)
(***************************************************************************)
\* A variant of esc that escapes nothing.
escNone(s) == s

RECURSIVE esc(_)
esc(s) ==
  IF s = <<>> THEN <<>>
  ELSE (IF Head(s) \in EscapedChars THEN <<"\\", Head(s)>> ELSE <<Head(s)>>)
       \o esc(Tail(s))

\* The source text of the regular expression match() builds for a filter.
RegExpSource(filter) ==
  LET pieces  == split(filter, "*")
      escaped == [i \in 1..Len(pieces) |-> esc(pieces[i])]
  IN  <<"^">> \o join(escaped, <<".", "*">>) \o <<"$">>

\* The regular expression syntax RegExpSource can produce: ^ and $ assertions,
\* backslash-escaped characters, '.', literal characters, each atom optionally
\* followed by the * quantifier.
RECURSIVE RegExpParse(_)
RegExpParse(src) ==
  IF src = <<>> THEN <<>>
  ELSE
    LET c    == Head(src)
        used == IF c = "\\" /\ Len(src) >= 2 THEN 2 ELSE 1
        kind == CASE c = "\\" /\ Len(src) >= 2 -> "lit"
                  [] c = "."  -> "dot"
                  [] c = "^"  -> "bol"
                  [] c = "$"  -> "eol"
                  [] OTHER    -> "lit"
        ch   == IF used = 2 THEN src[2] ELSE c
        star == Len(src) > used /\ src[used + 1] = "*" /\ kind \in {"lit", "dot"}
        skip == IF star THEN used + 1 ELSE used
    IN  <<[kind |-> kind, ch |-> ch, star |-> star]>>
        \o RegExpParse(SubSeq(src, skip + 1, Len(src)))

\* One atom against one character, with the i flag and without the s flag.
AtomTakes(atom, ch) ==
  IF atom.kind = "dot" THEN ch \notin LineTerminators
  ELSE Canonicalize(atom.ch) = Canonicalize(ch)

RECURSIVE RegExpAccepts(_, _, _)
RegExpAccepts(atoms, text, i) ==
  IF atoms = <<>> THEN TRUE
  ELSE
    LET a == Head(atoms) IN
    CASE a.kind = "bol" -> i = 1 /\ RegExpAccepts(Tail(atoms), text, i)
      [] a.kind = "eol" -> i = Len(text) + 1 /\ RegExpAccepts(Tail(atoms), text, i)
      [] OTHER ->
           IF a.star
             THEN \/ RegExpAccepts(Tail(atoms), text, i)
                  \/ /\ i <= Len(text)
                     /\ AtomTakes(a, text[i])
                     /\ RegExpAccepts(atoms, text, i + 1)
             ELSE /\ i <= Len(text)
                  /\ AtomTakes(a, text[i])
                  /\ RegExpAccepts(Tail(atoms), text, i + 1)

\* RegExp.prototype.test: a match starting anywhere in the text.
RegExpTest(src, text) ==
  \E i \in 1..(Len(text) + 1) : RegExpAccepts(RegExpParse(src), text, i)

match(text, filter) == RegExpTest(RegExpSource(Chars(filter)), Chars(text))

\* match() on every pair of segments of the model, computed once.
matchTable == [text \in Strings |-> [filter \in Strings |-> match(text, filter)]]

(***************************************************************************)
(* A value computed once and then used under a name, as a const is.        *)
(***************************************************************************)
bind(value, F(_)) == CHOOSE y \in { F(x) : x \in {value} } : TRUE

(***************************************************************************)
(* compare(), src/index.js 824-834, and filter(), 812-821.  A map is the   *)
(* sequence of its entries in for-in order; the filters argument is the    *)
(* filter already split on '/'.                                            *)
(***************************************************************************)
compare(key, filters) ==
  \E k \in {key}, f \in {filters} :
    /\ Len(k) = Len(f)
    /\ \A n \in 1..Len(k) : matchTable[k[n]][f[n]]

filter(keys, filters) ==
  bind(filters, LAMBDA f : SelectSeq(keys, LAMBDA e : compare(e.key, f)))

(***************************************************************************)
(* isValidMode(), 734-742, and getOppositeRole(), 745-751.                 *)
(***************************************************************************)
\* A variant of isValidMode that knows one mode only.
isValidModeAll(mode) == mode = <<"allsystems">>

\* A variant of isValidMode to which every mode is valid, an absent one too.
isValidModeAny(mode) == TRUE

isValidMode(mode) == mode \in {<<"allsystems">>, <<"bysystem">>}

\* Variants of getOppositeRole: one that takes the consumer to own a property
\* only where the flag says "no", one that does not look at the flag.
getOppositeRoleNo(role, provider) ==
  CASE role = "provider" /\ provider = <<"yes">> -> "consumer"
    [] role = "consumer" /\ provider = <<"no">> -> "provider"
    [] OTHER -> null

getOppositeRoleAny(role, provider) ==
  CASE role = "provider" -> "consumer"
    [] role = "consumer" -> "provider"
    [] OTHER -> null

getOppositeRole(role, provider) ==
  CASE role = "provider" /\ provider = <<"yes">> -> "consumer"
    [] role = "consumer" /\ provider # <<"yes">> -> "provider"
    [] OTHER -> null

(***************************************************************************)
(* Keys, values and the cache object.                                      *)
(***************************************************************************)
\* parts[i] of key.split('/'), i counted from 0 as in the code.
part(key, i) == IF i + 1 <= Len(key) THEN key[i + 1] ELSE undefined

\* What string concatenation makes of a segment and of a value.
segText(s) == IF s = undefined THEN "undefined" ELSE s
str(v) == IF v = <<undefined>> THEN <<"undefined">> ELSE v

\* 'version' + version: the segment continues with the value's first segment.
concat(s, v) == <<Segment(Chars(s) \o Chars(Head(str(v))))>> \o Tail(str(v))

cacheHas(c, key) == key \in { c[i].key : i \in 1..Len(c) }

\* The object as a function of the keys it has.
valueOf(c) ==
  [k \in { c[i].key : i \in 1..Len(c) } |->
     c[CHOOSE i \in 1..Len(c) : c[i].key = k].value]

\* cache[key]
cacheGet(c, key) ==
  IF cacheHas(c, key) THEN valueOf(c)[key] ELSE <<undefined>>

\* A variant of cacheSet that leaves the cache as it is.
cacheSetNot(c, key, value) == c

\* cache[key] = value: an existing property keeps its place, a new one goes last.
cacheSet(c, key, value) ==
  IF cacheHas(c, key)
    THEN [i \in 1..Len(c) |->
            IF c[i].key = key THEN [key |-> key, value |-> value] ELSE c[i]]
    ELSE Append(c, [key |-> key, value |-> value])

\* delete cache[key]
\* A variant of put that writes the value through to the cache.
putThrough(c, key, value) == cacheSet(c, key, value)

\* put(), 798-809, on the cache: the value goes to the store and the cache is
\* left as it is.
put(c, key, value) == c

\* A variant of cacheDelete that leaves the key where it is.
cacheDeleteNot(c, key) == c

cacheDelete(c, key) == SelectSeq(c, LAMBDA e : e.key # key)

RECURSIVE ConcatAll(_)
ConcatAll(seqs) ==
  bind(seqs, LAMBDA ss :
    IF Len(ss) = 0 THEN <<>> ELSE Head(ss) \o ConcatAll(Tail(ss)))

\* for (const key in entries): what the passes of the body push, in order.
forIn(entries, body(_)) ==
  bind(entries, LAMBDA es : ConcatAll([i \in 1..Len(es) |-> body(es[i])]))

(***************************************************************************)
(* bysystem(), 611-647; allsystems(), 597-608; consumers(), 584-594.       *)
(* Each returns what it pushes on add, in order.                           *)
(***************************************************************************)
\* A variant of bysystem that does not compare the context with the scope.
bysystemAnyContext(c, network, provider, profile, version, scope) ==
  LET ofContext(node, context) ==
        LET consumer == <<"cns", network, "nodes", node, "contexts", context>>
        IN  forIn(filter(c, consumer \o <<"consumer", profile, "version">>),
                  LAMBDA capability :
                    IF capability.value = version
                      THEN <<[provider |-> provider, consumer |-> consumer,
                              profile |-> profile, version |-> version]>>
                      ELSE <<>>)
      ofNode(node) ==
        forIn(filter(c, <<"cns", network, "nodes", node, "contexts", "*", "name">>),
              LAMBDA e : ofContext(node, part(e.key, 5)))
  IN  forIn(filter(c, <<"cns", network, "nodes", "*", "name">>),
            LAMBDA e : ofNode(part(e.key, 3)))

bysystem(c, network, provider, profile, version, scope) ==
  LET ofContext(node, context) ==
        LET consumer == <<"cns", network, "nodes", node, "contexts", context>>
        IN  IF context = scope
              THEN forIn(filter(c, consumer \o <<"consumer", profile, "version">>),
                         LAMBDA capability :
                           IF capability.value = version
                             THEN <<[provider |-> provider, consumer |-> consumer,
                                     profile |-> profile, version |-> version]>>
                             ELSE <<>>)
              ELSE <<>>
      ofNode(node) ==
        forIn(filter(c, <<"cns", network, "nodes", node, "contexts", "*", "name">>),
              LAMBDA e : ofContext(node, part(e.key, 5)))
  IN  forIn(filter(c, <<"cns", network, "nodes", "*", "name">>),
            LAMBDA e : ofNode(part(e.key, 3)))

allsystems(c, provider, profile, version, scope) ==
  forIn(filter(c, <<"cns", "*", "name">>),
        LAMBDA e : bysystem(c, part(e.key, 1), provider, profile, version, scope))

\* A variant of consumers that leaves out the provider's own context.
consumersNotSelf(c, mode, network, node, context, profile, version) ==
  LET provider == <<"cns", network, "nodes", node, "contexts", context>>
      scope    == context
      found    == CASE mode = <<"allsystems">> -> allsystems(c, provider, profile, version, scope)
                    [] mode = <<"bysystem">>   -> bysystem(c, network, provider, profile, version, scope)
                    [] OTHER -> <<>>
  IN  SelectSeq(found, LAMBDA cn : cn.consumer # provider)

consumers(c, mode, network, node, context, profile, version) ==
  LET provider == <<"cns", network, "nodes", node, "contexts", context>>
      scope    == context
  IN  CASE mode = <<"allsystems">> -> allsystems(c, provider, profile, version, scope)
        [] mode = <<"bysystem">>   -> bysystem(c, network, provider, profile, version, scope)
        [] OTHER -> <<>>

(***************************************************************************)
(* build(), 521-581, up to its call of connections(add): the candidates it *)
(* collects, and whether it returned before that call.                     *)
(***************************************************************************)
providers(c, mode, network) ==
  LET ns1 == <<"cns", network>>
      ofContext(node, context) ==
        LET ns3 == ns1 \o <<"nodes", node, "contexts", context>>
        IN  forIn(filter(c, ns3 \o <<"provider", "*", "version">>),
                  LAMBDA e : consumers(c, mode, network, node, context,
                                       part(e.key, 7), e.value))
      ofNode(node) ==
        LET ns2 == ns1 \o <<"nodes", node>>
        IN  forIn(filter(c, ns2 \o <<"contexts", "*", "name">>),
                  LAMBDA e : ofContext(node, part(e.key, 5)))
  IN  forIn(filter(c, ns1 \o <<"nodes", "*", "name">>),
            LAMBDA e : ofNode(part(e.key, 3)))

\* The loop over the networks, with the return it takes at a network whose
\* mode is not valid.
RECURSIVE buildNetworks(_, _, _)
buildNetworks(c, networks, add) ==
  IF networks = <<>> THEN [returned |-> FALSE, add |-> add]
  ELSE
    LET network == part(Head(networks).key, 1)
        mode    == cacheGet(c, <<"cns", network, "orchestrator">>)
    IN  IF ~isValidMode(mode)
          THEN [returned |-> TRUE, add |-> <<>>]
          ELSE buildNetworks(c, Tail(networks), add \o providers(c, mode, network))

build(c) == buildNetworks(c, filter(c, <<"cns", "*", "name">>), <<>>)

(***************************************************************************)
(* connections(), 650-731.  short.generate() returns the ids of IdNames    *)
(* in turn; n is the number already returned.                              *)
(***************************************************************************)
MaxIds == 2

IdNames == <<"i1", "i2", "i3", "i4">>

\* A variant of existing that never finds a record.
existingNone(found, other) == <<>>

\* The loops of 664-680: the records among those found that point at `other`.
existing(found, other) == SelectSeq(found, LAMBDA e : e.value = other)

\* A variant of mergeDefaults that merges the provider's defaults last.
mergeDefaultsProviderLast(propsp, propsc) ==
  LET names == propsc \o propsp
      merge[i \in 0..Len(names)] ==
        IF i = 0 THEN <<>>
        ELSE cacheSet(merge[i - 1], part(names[i].key, 9), names[i].value)
  IN  merge[Len(names)]

\* The merge of 689-706: the object `properties` after both loops, the
\* provider's defaults assigned first and the consumer's after them.
mergeDefaults(propsp, propsc) ==
  LET names == propsp \o propsc
      merge[i \in 0..Len(names)] ==
        IF i = 0 THEN <<>>
        ELSE cacheSet(merge[i - 1], part(names[i].key, 9), names[i].value)
  IN  merge[Len(names)]

\* A variant of idOf that generates an id whatever was found.
idFresh(found, n) == IdNames[n + 1]

\* Line 709: the id found on an existing side, a generated one when none was.
idOf(found, n) == IF found = null THEN IdNames[n + 1] ELSE found

\* A variant of side that puts the pointer record after the properties.
sidePointerLast(ns, role, value, properties) ==
  [i \in 1..Len(properties) |->
     [key |-> ns \o <<"properties", properties[i].key>>,
      value |-> properties[i].value]]
  \o <<[key |-> ns \o <<role>>, value |-> value]>>

\* The puts of one side, 713-719 and 723-729: the pointer record, then one
\* record for each name of `properties`.
side(ns, role, value, properties) ==
  <<[key |-> ns \o <<role>>, value |-> value]>>
  \o [i \in 1..Len(properties) |->
        [key |-> ns \o <<"properties", properties[i].key>>,
         value |-> properties[i].value]]

\* One pass of the loop body for candidate cn, up to its first put: whether it
\* continues at once, and otherwise the puts it will await one after another.
candidate(c, cn, n) ==
  LET provider == filter(c, cn.provider \o <<"provider", cn.profile, "connections", "*", "consumer">>)
      consumer == filter(c, cn.consumer \o <<"consumer", cn.profile, "connections", "*", "provider">>)
      foundp == existing(provider, cn.consumer)
      foundc == existing(consumer, cn.provider)
      addp   == foundp = <<>>
      addc   == foundc = <<>>
      found  == IF ~addc THEN part(foundc[1].key, 9)
                ELSE IF ~addp THEN part(foundp[1].key, 9)
                ELSE null
      propsp == filter(c, cn.provider \o <<"provider", cn.profile, "properties", "*">>)
      propsc == filter(c, cn.consumer \o <<"consumer", cn.profile, "properties", "*">>)
      properties == mergeDefaults(propsp, propsc)
      id  == idOf(found, n)
      nsp == cn.provider \o <<"provider", cn.profile, "connections", id>>
      nsc == cn.consumer \o <<"consumer", cn.profile, "connections", id>>
  IN  IF ~addp /\ ~addc
        THEN [skip |-> TRUE, puts |-> <<>>, nextId |-> n]
        ELSE [skip |-> FALSE,
              puts |-> (IF addp THEN side(nsp, "consumer", cn.consumer, properties)
                                ELSE <<>>)
                       \o (IF addc THEN side(nsc, "provider", cn.provider, properties)
                                   ELSE <<>>),
              nextId |-> IF found = null THEN n + 1 ELSE n]

\* The loop over add from its head to the first candidate that awaits a put.
RECURSIVE connections(_, _, _)
connections(c, add, n) ==
  IF add = <<>> THEN [puts |-> <<>>, add |-> <<>>, nextId |-> n]
  ELSE
    LET r == candidate(c, Head(add), n)
    IN  IF r.skip THEN connections(c, Tail(add), n)
        ELSE [puts |-> r.puts, add |-> Tail(add), nextId |-> r.nextId]

(***************************************************************************)
(* update(), 395-436, and propagate(), 439-489: the puts each awaits, in   *)
(* order (none when it returns early).                                     *)
(***************************************************************************)
update(c, key, value) ==
  LET network    == part(key, 1)
      node       == part(key, 3)
      context    == part(key, 5)
      role       == part(key, 6)
      profile    == part(key, 7)
      connection == part(key, 9)
      property   == segText(part(key, 11))
      mode       == cacheGet(c, <<"cns", network, "orchestrator">>)
      ns         == <<"cns", network, "nodes", node, "contexts", context, role, profile>>
      version    == cacheGet(c, ns \o <<"version">>)
      provider   == cacheGet(c, <<"cns", network, "profiles", profile, "versions">>
                                \o concat("version", version)
                                \o <<"properties", property, "provider">>)
      opposite   == getOppositeRole(role, provider)
      other      == cacheGet(c, ns \o <<"connections", connection, opposite>>)
  IN  IF ~isValidMode(mode) THEN <<>>
      ELSE IF version = <<null>> THEN <<>>
      ELSE IF provider = <<null>> THEN <<>>
      ELSE IF opposite = null THEN <<>>
      ELSE IF other = <<null>> THEN <<>>
      ELSE <<[key   |-> str(other) \o <<opposite, profile, "connections",
                                         connection, "properties", property>>,
              value |-> value]>>

\* A variant of propagateEach that stops after the first connection.
propagateFirst(found, property, value) ==
  [i \in 1..(IF found = <<>> THEN 0 ELSE 1) |->
     [key   |-> SubSeq(found[i].key, 1, Len(found[i].key) - 1)
                \o <<"properties", property>>,
      value |-> value]]

\* The loop of propagate() over the connections it found: one put for each.
propagateEach(found, property, value) ==
  [i \in 1..Len(found) |->
     [key   |-> SubSeq(found[i].key, 1, Len(found[i].key) - 1)
                \o <<"properties", property>>,
      value |-> value]]

propagate(c, key, value) ==
  LET network  == part(key, 1)
      node     == part(key, 3)
      context  == part(key, 5)
      role     == part(key, 6)
      profile  == part(key, 7)
      property == segText(part(key, 9))
      mode     == cacheGet(c, <<"cns", network, "orchestrator">>)
      ns       == <<"cns", network, "nodes", node, "contexts", context, role, profile>>
      version  == cacheGet(c, ns \o <<"version">>)
      provider == cacheGet(c, <<"cns", network, "profiles", profile, "versions">>
                              \o concat("version", version)
                              \o <<"properties", property, "provider">>)
      opposite == getOppositeRole(role, provider)
      found    == filter(c, ns \o <<"connections", "*", opposite>>)
  IN  IF ~isValidMode(mode) THEN <<>>
      ELSE IF version = <<null>> THEN <<>>
      ELSE IF provider = <<null>> THEN <<>>
      ELSE IF opposite = null THEN <<>>
      ELSE propagateEach(found, property, value)


(***************************************************************************)
(* cancel(), 512-518, and rebuild(), 492-509, on the timer variable and    *)
(* the runtime's set of armed timeouts.  setTimeout returns a handle no    *)
(* armed timeout has.                                                      *)
(***************************************************************************)
\* A variant of cancel that forgets clearTimeout.
cancelTimerOnly(t, a) == [timer |-> <<>>, armed |-> a]

cancel(t, a) ==
  IF t # <<>> THEN [timer |-> <<>>, armed |-> a \ {t[1]}]
              ELSE [timer |-> t, armed |-> a]

rebuild(t, a) ==
  LET cancelled == cancel(t, a)
      handle    == CHOOSE h \in 1..(Cardinality(cancelled.armed) + 1) :
                     /\ h \notin cancelled.armed
                     /\ \A g \in 1..(h - 1) : g \in cancelled.armed
  IN  [timer |-> <<handle>>, armed |-> cancelled.armed \cup {handle}]

(***************************************************************************)
(* onput(), 262-323: what the switch on the key's segments comes to.       *)
(***************************************************************************)
\* A variant of onput that does not look at the role segment.
onputAnyRole(key) ==
  LET root       == part(key, 0)
      network    == part(key, 1)
      property   == part(key, 2)
      capability == part(key, 8)
      connection == part(key, 10)
  IN  IF root # "cns" \/ network = undefined THEN "outside"
      ELSE CASE property = "orchestrator" -> "rebuild"
             [] property = "nodes" ->
                  CASE capability \in {"version", "scope"} -> "rebuild"
                    [] capability = "connections" ->
                         IF connection = "properties" THEN "update" ELSE "none"
                    [] capability = "properties" -> "propagate"
                    [] OTHER -> "none"
             [] property = "profiles" -> "rebuild"
             [] OTHER -> "none"

onput(key) ==
  LET root       == part(key, 0)
      network    == part(key, 1)
      property   == part(key, 2)
      role       == part(key, 6)
      capability == part(key, 8)
      connection == part(key, 10)
  IN  IF root # "cns" \/ network = undefined THEN "outside"
      ELSE CASE property = "orchestrator" -> "rebuild"
             [] property = "nodes" ->
                  IF role \in {"provider", "consumer"}
                    THEN CASE capability \in {"version", "scope"} -> "rebuild"
                           [] capability = "connections" ->
                                IF connection = "properties" THEN "update" ELSE "none"
                           [] capability = "properties" -> "propagate"
                           [] OTHER -> "none"
                    ELSE "none"
             [] property = "profiles" -> "rebuild"
             [] OTHER -> "none"

\* A variant of ondelete without the check of line 341.
ondeleteAny(key) == "none"

\* ondelete(), 326-392: whether the key is in scope; nothing else is live code.
ondelete(key) ==
  IF part(key, 0) # "cns" \/ part(key, 1) = undefined THEN "outside" ELSE "none"

(***************************************************************************)
(* The store.  watch('cns') reports every key that starts with 'cns'.      *)
(***************************************************************************)
watched(key) ==
  LET first == Chars(key[1])
  IN  Len(first) >= 3 /\ SubSeq(first, 1, 3) = <<"c", "n", "s">>

storePut(s, key, value) ==
  [k \in DOMAIN s \cup {key} |-> IF k = key THEN value ELSE s[k]]

storeDelete(s, key) == [k \in DOMAIN s \ {key} |-> s[k]]

emit(ev, op, key, value) ==
  IF watched(key) THEN Append(ev, [op |-> op, key |-> key, value |-> value]) ELSE ev

\* client.getAll().prefix(prefix).strings(): the entries in key order.
AsciiOrder == <<"\n", "\r", "*", "+", ".", "/", "0", "1", "2", "3", "4", "5", "6",
                "7", "8", "9">> \o UpperCase \o LowerCase

Code(ch) == CHOOSE i \in 1..Len(AsciiOrder) : AsciiOrder[i] = ch

keyText(key) == join([i \in 1..Len(key) |-> Chars(key[i])], <<"/">>)

RECURSIVE textLess(_, _)
textLess(a, b) ==
  IF b = <<>> THEN FALSE
  ELSE IF a = <<>> THEN TRUE
  ELSE IF Head(a) = Head(b) THEN textLess(Tail(a), Tail(b))
  ELSE Code(Head(a)) < Code(Head(b))

RECURSIVE inKeyOrder(_)
inKeyOrder(entries) ==
  IF entries = {} THEN <<>>
  ELSE LET least == CHOOSE e \in entries :
                      \A f \in entries \ {e} : textLess(keyText(e.key), keyText(f.key))
       IN  <<least>> \o inKeyOrder(entries \ {least})

all(s) ==
  inKeyOrder({ [key |-> k, value |-> s[k]] : k \in { j \in DOMAIN s : watched(j) } })

(***************************************************************************)
(* Steps.                                                                  *)
(***************************************************************************)
MaxExternal == 1

newTask(kind, puts, add) ==
  [kind |-> kind, puts |-> puts, add |-> add, phase |-> "sent"]

without(seq, i) == SubSeq(seq, 1, i - 1) \o SubSeq(seq, i + 1, Len(seq))

\* Another client of the store puts or deletes a key.
External ==
  /\ pc # "exited"
  /\ external > 0
  /\ \E m \in menu :
       /\ m.op = "delete" => m.key \in DOMAIN store
       /\ store' = IF m.op = "put" THEN storePut(store, m.key, m.value)
                                   ELSE storeDelete(store, m.key)
       /\ events' = IF watcher = undefined THEN events
                                           ELSE emit(events, m.op, m.key, m.value)
       /\ settled' = (settled /\ m.op = "put" /\ m.key \in DOMAIN store
                              /\ store[m.key] = m.value)
  /\ external' = external - 1
  /\ last' = [op |-> "external"]
  /\ UNCHANGED <<cache, timer, armed, tasks, nextId, menu, calls, lifeVars,
                 input, output>>

\* The watcher's put handler, 222-233, runs for the next event up to the first
\* await that suspends it.
DeliverPut ==
  /\ pc # "exited"
  /\ watcher # undefined
  /\ events # <<>>
  /\ Head(events).op = "put"
  /\ \E key \in {Head(events).key}, value \in {Head(events).value} :
       \E did \in {onput(key)} :
         \E c \in {IF did = "outside" THEN cache ELSE cacheSet(cache, key, value)} :
           \E puts \in {CASE did = "update"    -> update(c, key, value)
                          [] did = "propagate" -> propagate(c, key, value)
                          [] OTHER             -> <<>>},
              t \in {IF did = "rebuild" THEN rebuild(timer, armed)
                                        ELSE [timer |-> timer, armed |-> armed]} :
             /\ cache' = c
             /\ timer' = t.timer
             /\ armed' = t.armed
             /\ calls' = IF did = "rebuild" THEN calls + 1 ELSE calls
             /\ tasks' = IF puts = <<>> THEN tasks
                                        ELSE Append(tasks, newTask(did, puts, <<>>))
             /\ last' = [op |-> "put", key |-> key, value |-> value, did |-> did,
                         puts |-> puts]
  /\ events' = Tail(events)
  /\ UNCHANGED <<store, nextId, menu, external, settled, lifeVars, input, output>>

\* The watcher's delete handler, 234-245.
DeliverDelete ==
  /\ pc # "exited"
  /\ watcher # undefined
  /\ events # <<>>
  /\ Head(events).op = "delete"
  /\ LET key == Head(events).key
         did == ondelete(key)
     IN  /\ cache' = IF did = "outside" THEN cache ELSE cacheDelete(cache, key)
         /\ last' = [op |-> "delete", key |-> key, did |-> did]
  /\ events' = Tail(events)
  /\ UNCHANGED <<store, timer, armed, tasks, nextId, menu, external, calls,
                 settled, lifeVars, input, output>>

\* The timer callback, 497-508: build() and connections() up to the first put.
TimerFire ==
  /\ pc # "exited"
  /\ \E h \in armed, b \in {build(cache)} :
       \E r \in {connections(cache, b.add, nextId)} :
         /\ r.nextId <= MaxIds
         /\ armed' = armed \ {h}
         /\ timer' = <<>>
         /\ nextId' = r.nextId
         /\ tasks' = IF r.puts = <<>> THEN tasks
                     ELSE Append(tasks, newTask("build", r.puts, r.add))
         /\ last' = [op |-> "fire",
                     rerun |-> (settled /\ events = <<>> /\ tasks = <<>>),
                     coalesced |-> calls,
                     returned |-> b.returned,
                     add |-> b.add,
                     puts |-> r.puts,
                     ids |-> r.nextId - nextId]
  /\ settled' = (events = <<>> /\ tasks = <<>>)
  /\ calls' = 0
  /\ UNCHANGED <<store, cache, events, menu, external, lifeVars, input, output>>

\* The store carries out a put it was sent, 798-809, and reports it to the
\* watcher.  The invocation that awaits the put reads nothing before its next
\* put unless it is connections() going on to its next candidate, so it is taken
\* straight to that next put (or to its end); connections() between two
\* candidates resumes in a step of its own.
StoreApply ==
  /\ pc # "exited"
  /\ \E i \in 1..Len(tasks) :
       /\ tasks[i].phase = "sent"
       /\ LET p    == Head(tasks[i].puts)
              rest == Tail(tasks[i].puts)
          IN  /\ store' = storePut(store, p.key, p.value)
              /\ cache' = put(cache, p.key, p.value)
              /\ events' = IF watcher = undefined THEN events
                            ELSE emit(events, "put", p.key, p.value)
              /\ tasks' = IF rest # <<>>
                            THEN [tasks EXCEPT ![i].puts = rest]
                          ELSE IF tasks[i].add # <<>>
                            THEN [tasks EXCEPT ![i].puts = <<>>, ![i].phase = "acked"]
                          ELSE without(tasks, i)
  /\ last' = [op |-> "apply"]
  /\ UNCHANGED <<timer, armed, nextId, menu, external, calls, settled,
                 lifeVars, input, output>>

\* connections() goes on after the last put of a candidate, 654-686: through
\* the candidates it skips to the next one it writes, or to its end.
Resume ==
  /\ pc # "exited"
  /\ \E i \in 1..Len(tasks) :
       /\ tasks[i].phase = "acked"
       /\ \E r \in {connections(cache, tasks[i].add, nextId)} :
            /\ r.nextId <= MaxIds
            /\ tasks' = IF r.puts = <<>> THEN without(tasks, i)
                        ELSE [tasks EXCEPT ![i] = newTask(tasks[i].kind, r.puts, r.add)]
            /\ nextId' = r.nextId
            /\ last' = [op |-> "resume", puts |-> r.puts]
  /\ UNCHANGED <<store, cache, events, timer, armed, menu, external, calls,
                 settled, lifeVars, input, output>>

Next == External \/ DeliverPut \/ DeliverDelete \/ TimerFire \/ StoreApply \/ Resume


(***************************************************************************)
(* Store contents the engine is started on.                                *)
(***************************************************************************)
Entry(key, value) == [key |-> key, value |-> value]

\* A network; mode "" leaves the orchestrator key out.
Network(n, mode) ==
  {Entry(<<"cns", n, "name">>, <<n>>)}
  \cup (IF mode = "" THEN {} ELSE {Entry(<<"cns", n, "orchestrator">>, <<mode>>)})

Endpoint(n, node, context) == <<"cns", n, "nodes", node, "contexts", context>>

Context(n, node, context) ==
  { Entry(<<"cns", n, "nodes", node, "name">>, <<node>>),
    Entry(Endpoint(n, node, context) \o <<"name">>, <<context>>) }

Capability(endpoint, role, profile, version) ==
  {Entry(endpoint \o <<role, profile, "version">>, <<version>>)}

Default(endpoint, role, profile, property, value) ==
  {Entry(endpoint \o <<role, profile, "properties", property>>, <<value>>)}

Flag(n, profile, version, property, provider) ==
  {Entry(<<"cns", n, "profiles", profile, "versions">> \o concat("version", <<version>>)
          \o <<"properties", property, "provider">>, <<provider>>)}

ProviderSide(provider, consumer, profile, id) ==
  {Entry(provider \o <<"provider", profile, "connections", id, "consumer">>, consumer)}

ConsumerSide(provider, consumer, profile, id) ==
  {Entry(consumer \o <<"consumer", profile, "connections", id, "provider">>, provider)}

NAX == Endpoint("N", "A", "X")
NBX == Endpoint("N", "B", "X")
NBY == Endpoint("N", "B", "Y")
MBX == Endpoint("M", "B", "X")

\* Provider p1 version 1 in N/A/X; providers own property x of p1 version 1.
Provider1 ==
  Context("N", "A", "X") \cup Capability(NAX, "provider", "p1", "1")
  \cup Flag("N", "p1", "1", "x", "yes")

\* Scenario S1: the consumer in the same network and a context of the same name.
S1 ==
  Network("N", "bysystem") \cup Provider1
  \cup Context("N", "B", "X") \cup Capability(NBX, "consumer", "p1", "1")

\* S1 with its connection already there under id c1.
S1Connected ==
  S1 \cup ProviderSide(NAX, NBX, "p1", "c1") \cup ConsumerSide(NAX, NBX, "p1", "c1")

\* S1 with the provider's context consuming p1 too, and both connections there.
S1Twice ==
  S1Connected \cup Capability(NAX, "consumer", "p1", "1")
  \cup ProviderSide(NAX, NAX, "p1", "c2") \cup ConsumerSide(NAX, NAX, "p1", "c2")

\* S1 beside a network that has no orchestrator key.
S1Beside == S1 \cup Network("M", "")

\* S1 with the provider's context consuming p1 too: two pairs to connect.
S1Pair == S1 \cup Capability(NAX, "consumer", "p1", "1")

\* S1Connected in a network whose orchestrator key holds no mode the engine knows.
S1Off ==
  Network("N", "other") \cup Provider1
  \cup Context("N", "B", "X") \cup Capability(NBX, "consumer", "p1", "1")
  \cup ProviderSide(NAX, NBX, "p1", "c1") \cup ConsumerSide(NAX, NBX, "p1", "c1")

\* Scenario S2: the consumer in a context of another name.
S2 ==
  Network("N", "bysystem") \cup Provider1
  \cup Context("N", "B", "Y") \cup Capability(NBY, "consumer", "p1", "1")

\* Scenario S3: the consumer in another network, mode allsystems.
S3 ==
  Network("N", "allsystems") \cup Provider1
  \cup Network("M", "bysystem") \cup Flag("M", "p1", "1", "x", "yes")
  \cup Context("M", "B", "X") \cup Capability(MBX, "consumer", "p1", "1")

\* Scenario S3 as it is described: nothing says which mode network M is in,
\* and here it has no orchestrator key.
S3Bare ==
  Network("N", "allsystems") \cup Provider1
  \cup Network("M", "")
  \cup Context("M", "B", "X") \cup Capability(MBX, "consumer", "p1", "1")

\* S1Connected in a network that has no orchestrator key.
S1Bare ==
  Network("N", "") \cup Provider1
  \cup Context("N", "B", "X") \cup Capability(NBX, "consumer", "p1", "1")
  \cup ProviderSide(NAX, NBX, "p1", "c1") \cup ConsumerSide(NAX, NBX, "p1", "c1")

\* S1Connected beside keys the watcher reports and the engine has no use for:
\* one under another root that starts with cns, and the bare root.
S1Foreign ==
  S1Connected
  \cup {Entry(<<"cnsx", "N", "orchestrator">>, <<"bysystem">>), Entry(<<"cns">>, <<"v1">>)}

\* S1Connected in a network whose profile p1 declares no owner of property x.
S1NoFlag ==
  Network("N", "bysystem")
  \cup Context("N", "A", "X") \cup Capability(NAX, "provider", "p1", "1")
  \cup Context("N", "B", "X") \cup Capability(NBX, "consumer", "p1", "1")
  \cup ProviderSide(NAX, NBX, "p1", "c1") \cup ConsumerSide(NAX, NBX, "p1", "c1")

Scenarios ==
  {S1, S1Connected, S1Twice, S1Beside, S1Pair, S1Off, S1Bare, S1Foreign, S1NoFlag,
   S2, S3, S3Bare}

StoreOf(entries) ==
  [k \in { e.key : e \in entries } |-> (CHOOSE e \in entries : e.key = k).value]

Put(key, value) == [op |-> "put", key |-> key, value |-> value]
Delete(key) == [op |-> "delete", key |-> key, value |-> <<undefined>>]

\* What other clients do to the store while the engine runs.
Mutations ==
  { Put(<<"cns", "N", "orchestrator">>, <<"bysystem">>),
    Delete(<<"cns", "N", "orchestrator">>),
    Put(NAX \o <<"provider", "p1", "properties", "x">>, <<"v2">>),
    Put(NAX \o <<"provider", "p1", "connections", "c1", "properties", "x">>, <<"v2">>),
    Put(NBX \o <<"consumer", "p1", "connections", "c1", "properties", "x">>, <<"v2">>),
    Put(NBX \o <<"consumer", "p1", "properties", "x">>, <<"v2">>),
    Put(NBX \o <<"consumer", "p1", "version">>, <<"1">>),
    Put(NBX \o <<"consumer", "p1", "scope">>, <<"X">>),
    Put(NBX \o <<"other", "p1", "version">>, <<"1">>),
    Put(<<"cns", "N", "profiles", "p1", "name">>, <<"p1">>),
    Put(<<"cns", "N", "nodes", "A", "name">>, <<"A">>),
    Delete(NBX \o <<"consumer", "p1", "version">>),
    Delete(NAX \o <<"provider", "p1", "connections", "c1", "consumer">>),
    Delete(<<"cns", "N", "profiles", "p1", "versions", "version1", "properties", "x",
             "provider">>),
    Put(<<"cnsx", "N", "orchestrator">>, <<"allsystems">>),
    Delete(<<"cnsx", "N", "orchestrator">>),
    Put(<<"cns">>, <<"v2">>),
    Delete(<<"cns">>) }

\* main(), 66-84: connect() has loaded the cache and created the watcher, and
\* the initial rebuild() has armed the timer.
Started(entries, mutations, budget) ==
  /\ store = StoreOf(entries)
  /\ cache = all(store)
  /\ events = <<>>
  /\ timer = rebuild(<<>>, {}).timer
  /\ armed = rebuild(<<>>, {}).armed
  /\ tasks = <<>>
  /\ nextId = 0
  /\ menu = mutations
  /\ external = budget
  /\ calls = 1
  /\ settled = FALSE
  /\ last = [op |-> "start"]
  /\ client = "open"
  /\ watcher = "open"
  /\ pc = "running"
  /\ faults = 0
  /\ errors = <<>>
  /\ input = <<>>
  /\ output = <<>>

Init == \E entries \in Scenarios : Started(entries, Mutations, MaxExternal)

Spec == Init /\ [][Next]_vars

(***************************************************************************)
(* What the steps of Spec are held against.                                *)
(***************************************************************************)
\* The capabilities of the given role the store holds, by their version keys,
\* in the contexts of the nodes of the networks it declares by a name.
Capabilities(role) ==
  { k \in DOMAIN store :
      /\ Len(k) = 9
      /\ k[1] = "cns" /\ k[3] = "nodes" /\ k[5] = "contexts"
      /\ k[7] = role /\ k[9] = "version"
      /\ <<"cns", k[2], "name">> \in DOMAIN store
      /\ <<"cns", k[2], "nodes", k[4], "name">> \in DOMAIN store
      /\ SubSeq(k, 1, 6) \o <<"name">> \in DOMAIN store }

ModeOf(kv, network) ==
  IF <<"cns", network, "orchestrator">> \in DOMAIN kv
    THEN kv[<<"cns", network, "orchestrator">>] ELSE <<undefined>>

\* Provider capability P and consumer capability C match under the mode of
\* P's network: the same context name, profile and version value, and under
\* bysystem the same network.
Matching(P, C) ==
  /\ ModeOf(store, P[2]) \in {<<"allsystems">>, <<"bysystem">>}
  /\ ModeOf(store, P[2]) = <<"bysystem">> => C[2] = P[2]
  /\ C[6] = P[6]
  /\ C[8] = P[8]
  /\ store[C] = store[P]

\* Both records of a connection between two endpoints, under one id.
Connected(provider, consumer, profile) ==
  \E k \in DOMAIN store :
    /\ Len(k) = 11
    /\ k = provider \o <<"provider", profile, "connections", k[10], "consumer">>
    /\ store[k] = consumer
    /\ \E j \in DOMAIN store :
         /\ j = consumer \o <<"consumer", profile, "connections", k[10], "provider">>
         /\ store[j] = provider

\* A build that started on a cache equal to the store has returned, and
\* nothing is in progress.
BuildDone ==
  /\ settled
  /\ events = <<>>
  /\ tasks = <<>>
  /\ armed = {}

\* C1: after build() has completed against a quiescent store, every provider
\* capability and consumer capability that match under the provider network's
\* mode have both connection records in the store, under one id.
BuildConnectsEveryPair ==
  BuildDone =>
    \A P \in Capabilities("provider"), C \in Capabilities("consumer") :
      Matching(P, C) => Connected(SubSeq(P, 1, 6), SubSeq(C, 1, 6), P[8])

\* The same where every network of the store has a valid mode.
BuildConnectsEveryPairOfValidNetworks ==
  (\A k \in DOMAIN store :
     (Len(k) = 3 /\ k[1] = "cns" /\ k[3] = "name")
       => ModeOf(store, k[2]) \in {<<"allsystems">>, <<"bysystem">>})
  => BuildConnectsEveryPair

\* The invocations of build() that have not returned.
BuildsInFlight == { i \in DOMAIN tasks : tasks[i].kind = "build" }

\* C2: at most one build() is in flight in every reachable state.
BuildSerialised == Cardinality(BuildsInFlight) <= 1

Owner(key, p) ==
  LET version == cacheGet(cache, SubSeq(key, 1, 8) \o <<"version">>)
      flag    == cacheGet(cache, <<"cns", key[2], "profiles", key[8], "versions">>
                                 \o concat("version", version)
                                 \o <<"properties", p, "provider">>)
  IN  IF flag = <<"yes">> THEN "provider" ELSE "consumer"

Other(role) == IF role = "provider" THEN "consumer" ELSE "provider"

ModeValid(key) ==
  ModeOf([k \in { e.key : e \in { cache[i] : i \in DOMAIN cache } } |-> cacheGet(cache, k)],
         key[2]) \in {<<"allsystems">>, <<"bysystem">>}

\* The ids of the connections the cache holds for the capability of the key.
ConnectionsOf(key) ==
  { k[10] : k \in { e.key : e \in { cache[i] : i \in DOMAIN cache } } \cap
                  { SubSeq(key, 1, 8) \o <<"connections", id, Other(key[7])>> :
                      id \in Strings } }

\* C5: when the put of a capability-level property p = v under the endpoint
\* that owns p has been handled and the network's mode is valid, propagate has
\* issued exactly one put for every connection of the capability in the cache,
\* of v to .../connections/{id}/properties/{p} under the same endpoint.
PropagateWritesEveryConnection ==
  (/\ last.op = "put"
   /\ last.did = "propagate"
   /\ Owner(last.key, last.key[10]) = last.key[7]
   /\ ModeValid(last.key))
  =>
    /\ Len(last.puts) = Cardinality(ConnectionsOf(last.key))
    /\ \A id \in ConnectionsOf(last.key) :
         \E i \in DOMAIN last.puts :
           last.puts[i] =
             [key   |-> SubSeq(last.key, 1, 8)
                        \o <<"connections", id, "properties", last.key[10]>>,
              value |-> last.value]
    /\ last.puts # <<>> =>
         /\ tasks # <<>>
         /\ tasks[Len(tasks)].puts = last.puts

\* The owner's put reaches a capability with two connections.
PropagateWitness ==
  /\ last.op = "put"
  /\ last.did = "propagate"
  /\ Owner(last.key, last.key[10]) = last.key[7]
  /\ ModeValid(last.key)
  /\ Cardinality(ConnectionsOf(last.key)) = 2
  /\ Len(last.puts) = 2

\* The pointer record of the connection the key lies under.
Pointer(key) == SubSeq(key, 1, 10) \o <<Other(key[7])>>

\* What C6 expects update to have issued for the put it handled last.
UpdateExpected ==
  IF Owner(last.key, last.key[12]) = last.key[7]
    THEN <<[key   |-> cacheGet(cache, Pointer(last.key))
                      \o <<Other(last.key[7]), last.key[8], "connections",
                           last.key[10], "properties", last.key[12]>>,
            value |-> last.value]>>
    ELSE <<>>

UpdateHandled ==
  /\ last.op = "put"
  /\ last.did = "update"
  /\ cacheHas(cache, Pointer(last.key))

\* C6 as written: the put of a connection-level property under the owning
\* endpoint makes update put the value to the same property of the same
\* connection under the opposite endpoint, and under the endpoint that does not
\* own the property it makes update put nothing.
UpdateReachesOpposite == UpdateHandled => last.puts = UpdateExpected

\* C6 as amended: the same where the network's mode is valid.
UpdateReachesOppositeInValidMode ==
  (UpdateHandled /\ ModeValid(last.key)) => last.puts = UpdateExpected

\* The provider's put of its own property is passed on to the consumer.
UpdateWitness ==
  /\ UpdateHandled
  /\ ModeValid(last.key)
  /\ last.key[7] = "provider"
  /\ last.puts = <<[key   |-> NBX \o <<"consumer", "p1", "connections", "c1",
                                        "properties", "x">>,
                    value |-> <<"v2">>]>>

\* C9: at most one timer is armed, and it is the one the timer variable holds;
\* a timer is armed exactly while rebuild() has been called since the last
\* firing; each firing starts the one build() for all the calls before it and
\* leaves no timer armed.
DebounceCoalesces ==
  /\ Cardinality(armed) <= 1
  /\ armed = (IF timer = <<>> THEN {} ELSE {timer[1]})
  /\ (calls > 0) <=> (armed # {})
  /\ last.op = "fire" => (last.coalesced >= 1 /\ calls = 0 /\ armed = {})

\* One firing for two calls of rebuild().
DebounceWitness ==
  /\ last.op = "fire"
  /\ last.coalesced = 2

\* The dispatch table of put events, read off its rows.
TableAction(key) ==
  LET parts(i) == IF i < Len(key) THEN key[i + 1] ELSE undefined
  IN  IF parts(2) \in {"orchestrator", "profiles"} THEN "rebuild"
      ELSE IF parts(2) = "nodes" /\ parts(6) \in {"provider", "consumer"}
        THEN IF parts(8) \in {"version", "scope"} THEN "rebuild"
             ELSE IF parts(8) = "properties" THEN "propagate"
             ELSE IF parts(8) = "connections" /\ parts(10) = "properties" THEN "update"
             ELSE "none"
      ELSE "none"

\* C10: the handler of an in-scope put event does what the table says for the
\* key, and issues puts only through update and propagate.
DispatchFollowsTable ==
  (last.op = "put" /\ last.did # "outside") =>
    /\ last.did = TableAction(last.key)
    /\ last.did = "rebuild" => (armed # {} /\ calls > 0)
    /\ last.did \notin {"update", "propagate"} => last.puts = <<>>

\* A put under a role segment that is neither provider nor consumer.
DispatchWitness ==
  /\ last.op = "put"
  /\ last.key = NBX \o <<"other", "p1", "version">>
  /\ last.did = "none"


(***************************************************************************)
(* What build() is held against, read off the cache it ran on.  TimerFire  *)
(* leaves the cache as it is, so after a firing the cache is still the one *)
(* build() has read.                                                       *)
(***************************************************************************)
\* The capabilities of the given role in the key-value map kv, in the
\* contexts of the nodes of the networks it declares by a name.
CapabilitiesIn(kv, role) ==
  { k \in DOMAIN kv :
      /\ Len(k) = 9
      /\ k[1] = "cns" /\ k[3] = "nodes" /\ k[5] = "contexts"
      /\ k[7] = role /\ k[9] = "version"
      /\ <<"cns", k[2], "name">> \in DOMAIN kv
      /\ <<"cns", k[2], "nodes", k[4], "name">> \in DOMAIN kv
      /\ SubSeq(k, 1, 6) \o <<"name">> \in DOMAIN kv }

MatchingIn(kv, P, C) ==
  /\ ModeOf(kv, P[2]) \in {<<"allsystems">>, <<"bysystem">>}
  /\ ModeOf(kv, P[2]) = <<"bysystem">> => C[2] = P[2]
  /\ C[6] = P[6]
  /\ C[8] = P[8]
  /\ kv[C] = kv[P]

\* The ids of the records of kv under endpoint/role/profile/connections that
\* point at `other`.
PointersIn(kv, endpoint, role, profile, other) ==
  { k[10] : k \in { j \in DOMAIN kv :
                      /\ Len(j) = 11
                      /\ j = endpoint \o <<role, profile, "connections", j[10], Other(role)>>
                      /\ kv[j] = other } }

\* Neither record of a connection between the two capabilities is in kv.
UnconnectedIn(kv, P, C) ==
  /\ PointersIn(kv, SubSeq(P, 1, 6), "provider", P[8], SubSeq(C, 1, 6)) = {}
  /\ PointersIn(kv, SubSeq(C, 1, 6), "consumer", C[8], SubSeq(P, 1, 6)) = {}

\* The pairs build() has to connect: they match under the mode of the
\* provider's network and have no record yet.
PairsToConnect(kv) ==
  { pair \in CapabilitiesIn(kv, "provider") \X CapabilitiesIn(kv, "consumer") :
      MatchingIn(kv, pair[1], pair[2]) /\ UnconnectedIn(kv, pair[1], pair[2]) }

\* C11: build() passes over a network whose mode is not valid and still
\* matches the providers of the networks whose mode is valid: where the cache
\* holds a pair to connect in a network of valid mode, the build issues puts,
\* whatever the modes of the other networks.
BuildSkipsInvalidNetwork ==
  last.op = "fire" =>
    (PairsToConnect(valueOf(cache)) # {} => last.puts # <<>>)

\* The same of a build that did not return at a network of invalid mode.
BuildConnectsWhereAllValid ==
  (last.op = "fire" /\ ~last.returned) =>
    (PairsToConnect(valueOf(cache)) # {} => last.puts # <<>>)

\* The keys of the cache that declare a capability of the given role, whether
\* or not their node and context have a name.
VersionKeys(role) ==
  { k \in DOMAIN valueOf(cache) :
      /\ Len(k) = 9
      /\ k[1] = "cns" /\ k[3] = "nodes" /\ k[5] = "contexts"
      /\ k[7] = role /\ k[9] = "version" }

\* C12: every candidate build() collects for a provider of a bysystem network
\* has its consumer in the same network, in a context of the provider's
\* context name, with the same profile and the provider's version value; so
\* where no consumer capability is in a context named as a provider's context
\* is, build() issues no put.
BysystemCandidatesInScope ==
  last.op = "fire" =>
    /\ \A i \in DOMAIN last.add :
         ModeOf(valueOf(cache), last.add[i].provider[2]) = <<"bysystem">> =>
           /\ last.add[i].consumer[2] = last.add[i].provider[2]
           /\ last.add[i].consumer[6] = last.add[i].provider[6]
           /\ cacheGet(cache, last.add[i].provider
                              \o <<"provider", last.add[i].profile, "version">>)
                = last.add[i].version
           /\ cacheGet(cache, last.add[i].consumer
                              \o <<"consumer", last.add[i].profile, "version">>)
                = last.add[i].version
    /\ (\A P \in VersionKeys("provider"), C \in VersionKeys("consumer") : C[6] # P[6])
         => (last.add = <<>> /\ last.puts = <<>>)

\* Scenario S2 after its build: the one consumer is in context Y, and nothing
\* is written.
BysystemWitness ==
  /\ last.op = "fire"
  /\ ~last.returned
  /\ cacheGet(cache, <<"cns", "N", "orchestrator">>) = <<"bysystem">>
  /\ VersionKeys("provider") = {NAX \o <<"provider", "p1", "version">>}
  /\ VersionKeys("consumer") = {NBY \o <<"consumer", "p1", "version">>}
  /\ last.puts = <<>>
  /\ \A k \in DOMAIN store : Len(k) # 11

\* The build has issued both records of a connection between the provider and
\* the consumer endpoint, under one id, each holding the other's prefix.
IssuesBothRecords(provider, consumer, profile) ==
  \E id \in Strings :
    /\ \E i \in DOMAIN last.puts :
         last.puts[i] = [key   |-> provider \o <<"provider", profile, "connections",
                                                 id, "consumer">>,
                         value |-> consumer]
    /\ \E i \in DOMAIN last.puts :
         last.puts[i] = [key   |-> consumer \o <<"consumer", profile, "connections",
                                                 id, "provider">>,
                         value |-> provider]

\* Network N is in mode allsystems, and the cache holds a provider of p1 in
\* N/A/X and a consumer of p1 of the same version in M/B/X, not yet connected.
AcrossNetworks ==
  /\ cacheGet(cache, <<"cns", "N", "orchestrator">>) = <<"allsystems">>
  /\ NAX \o <<"provider", "p1", "version">> \in CapabilitiesIn(valueOf(cache), "provider")
  /\ MBX \o <<"consumer", "p1", "version">> \in CapabilitiesIn(valueOf(cache), "consumer")
  /\ cacheGet(cache, NAX \o <<"provider", "p1", "version">>)
       = cacheGet(cache, MBX \o <<"consumer", "p1", "version">>)
  /\ UnconnectedIn(valueOf(cache), NAX \o <<"provider", "p1", "version">>,
                   MBX \o <<"consumer", "p1", "version">>)

\* C13: under mode allsystems in network N, build() connects the provider in
\* N/A/X and the consumer in M/B/X: it writes the provider-side record under
\* the cns/N/... prefix and the consumer-side record under the cns/M/...
\* prefix, each holding the other's absolute prefix.
AllsystemsConnectsAcrossNetworks ==
  (last.op = "fire" /\ AcrossNetworks) => IssuesBothRecords(NAX, MBX, "p1")

\* The same of a build that did not return at a network of invalid mode.
AllsystemsConnectsWhereAllValid ==
  (last.op = "fire" /\ ~last.returned /\ AcrossNetworks)
    => IssuesBothRecords(NAX, MBX, "p1")

\* Scenario S3 after its build, network M in mode bysystem.
AllsystemsReached ==
  /\ last.op = "fire"
  /\ ~last.returned
  /\ AcrossNetworks
  /\ IssuesBothRecords(NAX, MBX, "p1")

\* The version key of the capability the key lies under is not in the cache.
VersionMissing(key) == ~cacheHas(cache, SubSeq(key, 1, 8) \o <<"version">>)

\* The provider flag of property p of the capability's profile and version is
\* not in the cache.
FlagMissing(key, p) ==
  \/ VersionMissing(key)
  \/ ~cacheHas(cache, <<"cns", key[2], "profiles", key[8], "versions">>
                      \o concat("version", cacheGet(cache, SubSeq(key, 1, 8) \o <<"version">>))
                      \o <<"properties", p, "provider">>)

\* The property a handled put is about: the twelfth segment of a connection's
\* property, the tenth of a capability's.
PropertyOf(key, did) == IF did = "update" THEN key[12] ELSE key[10]

\* C16: update and propagate have issued no put when the capability's version
\* key or the profile's provider flag of the property is not in the cache,
\* whichever role the touched endpoint has.
BailsWhenVersionOrFlagMissing ==
  (/\ last.op = "put"
   /\ last.did \in {"update", "propagate"}
   /\ \/ VersionMissing(last.key)
      \/ FlagMissing(last.key, PropertyOf(last.key, last.did)))
  => last.puts = <<>>

\* C17: update has issued no put when the pointer to the opposite endpoint is
\* not in the cache, and every key it has put to starts with the value of the
\* pointer record of the connection.
BailsWhenPointerMissing ==
  (last.op = "put" /\ last.did = "update")
  =>
    /\ ~cacheHas(cache, Pointer(last.key)) => last.puts = <<>>
    /\ \A i \in DOMAIN last.puts :
         /\ cacheHas(cache, Pointer(last.key))
         /\ SubSeq(last.puts[i].key, 1, 6) = cacheGet(cache, Pointer(last.key))

\* C18: a step in which update or propagate handles a put under a network whose
\* orchestrator key holds neither allsystems nor bysystem, or is absent, issues
\* no put: it queues nothing and leaves the store as it is.
NoOpInInvalidMode ==
  [][ (/\ last'.op = "put"
       /\ last'.did \in {"update", "propagate"}
       /\ ~ModeValid(last.key)')
      => (last'.puts = <<>> /\ tasks' = tasks /\ store' = store) ]_vars

\* The provider's put of its own property on an existing connection, in a
\* network without an orchestrator key, is not passed on.
NoOpWitness ==
  /\ last.op = "put"
  /\ last.did = "update"
  /\ ~cacheHas(cache, <<"cns", last.key[2], "orchestrator">>)
  /\ last.key[7] = "provider"
  /\ Owner(last.key, last.key[12]) = "provider"
  /\ cacheHas(cache, Pointer(last.key))
  /\ last.puts = <<>>

\* A key is in scope when its first segment is cns and a network segment
\* follows it.
InScope(key) == key[1] = "cns" /\ Len(key) >= 2

\* C19: the step that handles the delete event of a key in scope removes the
\* key from the cache and does nothing else: it arms and clears no timer,
\* queues no put and leaves the store as it is; and no step of the engine ever
\* removes a key from the store.
DeleteOnlyForgets ==
  [][ /\ (last'.op = "delete" /\ InScope(last'.key))
         => /\ cache' = SelectSeq(cache, LAMBDA e : e.key # last'.key)
            /\ UNCHANGED <<timer, armed, tasks, store, nextId, calls>>
      /\ last'.op # "external" => DOMAIN store \subseteq DOMAIN store' ]_vars

\* The provider's pointer of connection c1 has been deleted and forgotten; the
\* consumer's side of c1 is still in the store and in the cache, and nothing is
\* queued.
DeleteWitness ==
  /\ last.op = "delete"
  /\ last.key = NAX \o <<"provider", "p1", "connections", "c1", "consumer">>
  /\ ~cacheHas(cache, last.key)
  /\ NBX \o <<"consumer", "p1", "connections", "c1", "provider">> \in DOMAIN store
  /\ cacheHas(cache, NBX \o <<"consumer", "p1", "connections", "c1", "provider">>)
  /\ tasks = <<>>

\* C20: the step that handles a put or delete event of a key out of scope
\* leaves the cache, the timer and the store as they are, and queues nothing.
OutOfScopeIgnored ==
  [][ (last'.op \in {"put", "delete"} /\ ~InScope(last'.key))
      => UNCHANGED <<cache, timer, armed, store, tasks, nextId, calls>> ]_vars

\* The put of an orchestrator key under the root cnsx has been handled: the
\* cache has not taken the key.
OutOfScopeWitness ==
  /\ last.op = "put"
  /\ last.key = <<"cnsx", "N", "orchestrator">>
  /\ last.did = "outside"
  /\ ~cacheHas(cache, last.key)

\* C21: the step that hands a put event to rebuild, update or propagate takes
\* the event at the head of the events the store has emitted, whatever is
\* still suspended, and has set cache[key] to the event's value, every other
\* entry being as before; what update and propagate issue is what they compute
\* from the cache that holds the value.
CacheSetBeforeDispatch ==
  [][ (last'.op = "put" /\ last'.did \in {"rebuild", "update", "propagate"})
      => /\ events # <<>>
         /\ Head(events).op = "put"
         /\ last'.key = Head(events).key
         /\ last'.value = Head(events).value
         /\ events' = Tail(events)
         /\ cacheHas(cache', last'.key)
         /\ cacheGet(cache', last'.key) = last'.value
         /\ \A k \in DOMAIN valueOf(cache) \ {last'.key} :
              cacheHas(cache', k) /\ cacheGet(cache', k) = cacheGet(cache, k)
         /\ DOMAIN valueOf(cache') = DOMAIN valueOf(cache) \cup {last'.key}
         /\ last'.did = "update" => last'.puts = update(cache', last'.key, last'.value)
         /\ last'.did = "propagate" => last'.puts = propagate(cache', last'.key, last'.value)
    ]_vars

\* The put that propagate wrote to the first of two connections has come back
\* as an event and has been handed to update, with the cache holding its value,
\* while propagate is still suspended at its second put.
CacheSetWitness ==
  /\ last.op = "put"
  /\ last.did = "update"
  /\ cacheGet(cache, last.key) = last.value
  /\ \E i \in DOMAIN tasks : tasks[i].kind = "propagate" /\ tasks[i].phase = "sent"

\* C28: only the step that handles a watch event changes the cache, and it
\* changes the entry of the event's key alone; a step in which build(),
\* connections(), update or propagate run their reads, the store carries out a
\* put of the engine, or connections() resumes leaves the cache as it is, and
\* the put reaches the cache as the event the store emits for it.
OnlyClassifierWritesCache ==
  [][ /\ cache' # cache
         => /\ last'.op \in {"put", "delete"}
            /\ last'.key = Head(events).key
            /\ \A k \in (DOMAIN valueOf(cache) \cup DOMAIN valueOf(cache')) \ {last'.key} :
                 /\ cacheHas(cache, k) /\ cacheHas(cache', k)
                 /\ cacheGet(cache', k) = cacheGet(cache, k)
      /\ last'.op \in {"fire", "apply", "resume"} => cache' = cache
      /\ (last'.op = "apply" /\ store' # store)
         => \E k \in DOMAIN store' :
              /\ k \notin DOMAIN store \/ store[k] # store'[k]
              /\ watched(k) => events' = Append(events, [op |-> "put", key |-> k,
                                                          value |-> store'[k]])
    ]_vars

\* The store has carried out the put of a provider-side pointer that build()
\* issued: the store holds the record and the cache does not yet, the event
\* being still on its way.
OnlyClassifierWitness ==
  /\ last.op = "apply"
  /\ \E k \in DOMAIN store :
       /\ Len(k) = 11 /\ k[9] = "connections" /\ k[11] = "consumer"
       /\ ~cacheHas(cache, k)
       /\ \E i \in DOMAIN events : events[i].op = "put" /\ events[i].key = k

isPointer(p) == Len(p.key) = 11

roleOfPut(p) == p.key[7]

\* No consumer-side put before a provider-side put, and on neither side a
\* property record before the pointer record.
InWriteOrder(puts) ==
  \A i, j \in DOMAIN puts :
    i < j => /\ ~(roleOfPut(puts[i]) = "consumer" /\ roleOfPut(puts[j]) = "provider")
             /\ ~(roleOfPut(puts[i]) = roleOfPut(puts[j])
                    /\ ~isPointer(puts[i]) /\ isPointer(puts[j]))

\* The puts of a candidate as connections() sets out to issue them: in write
\* order, and each side that is written starts with its pointer record.
PointerFirst(puts) ==
  /\ InWriteOrder(puts)
  /\ \A j \in DOMAIN puts :
       ~isPointer(puts[j])
         => \E i \in 1..(j - 1) : roleOfPut(puts[i]) = roleOfPut(puts[j]) /\ isPointer(puts[i])

\* C31: a build() has one put outstanding at a time, the first of those it
\* has still to issue for the candidate it is at; it issues the provider-side
\* records before the consumer-side records and on each side the pointer
\* record before the properties records.
WriteOrder ==
  /\ [](\A i \in DOMAIN tasks : tasks[i].kind = "build" => InWriteOrder(tasks[i].puts))
  /\ [][ last'.op \in {"fire", "resume"} => PointerFirst(last'.puts) ]_vars
  /\ [][ last'.op = "apply"
          => \E i \in DOMAIN tasks :
               /\ tasks[i].phase = "sent"
               /\ store' = storePut(store, Head(tasks[i].puts).key, Head(tasks[i].puts).value)
               /\ \A j \in DOMAIN tasks \ {i} :
                    \E k \in DOMAIN tasks' : tasks'[k] = tasks[j]
               /\ \/ Len(tasks') = Len(tasks) - 1
                  \/ /\ Len(tasks') = Len(tasks)
                     /\ tasks'[i].puts = Tail(tasks[i].puts) ]_vars

\* A build sets out to write both sides of a connection with a property each.
WriteOrderWitness ==
  /\ last.op = "fire"
  /\ Len(last.puts) >= 4
  /\ \E i, j \in DOMAIN last.puts :
       /\ roleOfPut(last.puts[i]) = "provider" /\ ~isPointer(last.puts[i])
       /\ roleOfPut(last.puts[j]) = "consumer" /\ ~isPointer(last.puts[j])

\* The ids of the records of one side that the store holds for a pair.
RecordIds(from, role, profile, pointer, to) ==
  { k[10] : k \in { j \in DOMAIN store :
                      /\ Len(j) = 11
                      /\ SubSeq(j, 1, 9) = from \o <<role, profile, "connections">>
                      /\ j[11] = pointer
                      /\ store[j] = to } }

Endpoints == {NAX, NBX, NBY, MBX}

\* C34: the store never holds two provider-side records of one provider and
\* profile that point at the same consumer, nor two consumer-side records of
\* one consumer and profile that point at the same provider.
ConnectionsUnique ==
  \A p \in Endpoints, c \in Endpoints :
    /\ Cardinality(RecordIds(p, "provider", "p1", "consumer", str(c))) <= 1
    /\ Cardinality(RecordIds(c, "consumer", "p1", "provider", str(p))) <= 1

\* The part of a key after the endpoint has the form of a connection record:
\* {role}/{profile}/connections/{id}/{consumer|provider} or
\* {role}/{profile}/connections/{id}/properties/{name}.
RecordTail(t) ==
  /\ Len(t) \in {5, 6}
  /\ t[1] \in {"provider", "consumer"}
  /\ t[3] = "connections"
  /\ IF Len(t) = 5 THEN t[5] \in {"consumer", "provider"}
                   ELSE t[5] = "properties"

\* The key is a connection record under an endpoint
\* cns/{network}/nodes/{node}/contexts/{context}.
ConnectionKey(k) ==
  /\ Len(k) \in {11, 12}
  /\ k[1] = "cns" /\ k[3] = "nodes" /\ k[5] = "contexts"
  /\ RecordTail(SubSeq(k, 7, Len(k)))

\* C38: every put that build, update or propagate has issued or has still to
\* issue is a put of a connection record under an endpoint; the engine issues
\* nothing but puts.
WritesConnectionKeysOnly ==
  \A i \in DOMAIN tasks : \A j \in DOMAIN tasks[i].puts :
    ConnectionKey(tasks[i].puts[j].key)

\* What holds: every key the engine puts ends as a connection record does,
\* and no step of the engine takes a key out of the store.
WritesRecordTailsOnly ==
  /\ [](\A i \in DOMAIN tasks : \A j \in DOMAIN tasks[i].puts :
          LET k == tasks[i].puts[j].key
          IN  \/ Len(k) >= 6 /\ RecordTail(SubSeq(k, Len(k) - 5, Len(k)))
              \/ Len(k) >= 5 /\ RecordTail(SubSeq(k, Len(k) - 4, Len(k))))
  /\ [][ last'.op # "external" => DOMAIN store \subseteq DOMAIN store' ]_vars

(***************************************************************************)
(* SpecS1: the engine started on scenario S1, the store left alone.  The   *)
(* store holds S1's network, provider and consumer and any of S1Extras.    *)
(* Node runs a timeout that is due, hands over a watch event that has      *)
(* arrived and resumes a function whose awaited put has been answered, so  *)
(* every step that stays enabled is taken.                                 *)
(***************************************************************************)
S1Core ==
  Network("N", "bysystem")
  \cup Context("N", "A", "X") \cup Capability(NAX, "provider", "p1", "1")
  \cup Context("N", "B", "X") \cup Capability(NBX, "consumer", "p1", "1")

S1Extras ==
  { Flag("N", "p1", "1", "x", "yes"),
    Default(NAX, "provider", "p1", "x", "v1"),
    Default(NBX, "consumer", "p1", "x", "v2"),
    Capability(NAX, "consumer", "p1", "1"),
    Context("N", "B", "Y") \cup Capability(NBY, "consumer", "p1", "1") }

InitS1 ==
  \E extras \in SUBSET S1Extras : Started(S1Core \cup UNION extras, {}, 0)

NextS1 == DeliverPut \/ TimerFire \/ StoreApply \/ Resume

SpecS1 ==
  /\ InitS1
  /\ [][NextS1]_vars
  /\ WF_vars(DeliverPut)
  /\ WF_vars(TimerFire)
  /\ WF_vars(StoreApply)
  /\ WF_vars(Resume)

\* C4: started on S1 and with no mutation from outside, the engine eventually
\* has the store hold the provider-side record of a connection from N/A/X to
\* N/B/X for p1 and the consumer-side record of the same id.
S1Connects == <>Connected(NAX, NBX, "p1")

\* The connection is there, made under the first id the engine took.
S1ConnectsWitness ==
  /\ external = 0
  /\ menu = {}
  /\ nextId > 0
  /\ Connected(NAX, NBX, "p1")
  /\ tasks = <<>>
  /\ events = <<>>

(***************************************************************************)
(* The engine at rest, for the specifications that exercise one function.  *)
(***************************************************************************)
EngineUnused ==
  /\ store = <<>> /\ cache = <<>> /\ events = <<>>
  /\ timer = <<>> /\ armed = {} /\ tasks = <<>> /\ nextId = 0
  /\ menu = {} /\ external = 0 /\ calls = 0 /\ settled = FALSE
  /\ last = [op |-> "none"]
  /\ client = undefined /\ watcher = undefined /\ pc = "none"
  /\ faults = 0 /\ errors = <<>>

engineVars == <<store, cache, events, timer, armed, tasks, nextId, menu,
                external, calls, settled, last, lifeVars>>

(***************************************************************************)
(* SpecRole: getOppositeRole applied to every role and flag of RoleInputs. *)
(***************************************************************************)
RoleInputs == {"provider", "consumer", "Provider", "Consumer", "other", "",
               undefined, null}
FlagInputs == {<<"yes">>, <<"no">>, <<"YES">>, <<"Yes">>, <<"">>, <<"true">>,
               <<undefined>>, <<null>>}

InitRole ==
  /\ EngineUnused
  /\ input \in [role : RoleInputs, provider : FlagInputs]
  /\ output = <<>>

ApplyRole ==
  /\ output = <<>>
  /\ output' = <<getOppositeRole(input.role, input.provider)>>
  /\ UNCHANGED <<input, engineVars>>

SpecRole == InitRole /\ [][ApplyRole]_vars

\* C7: getOppositeRole returns consumer exactly for (provider, "yes"), provider
\* exactly for role consumer with a flag other than "yes", and null for every
\* other role and flag.
OppositeRoleTable ==
  output # <<>> =>
    /\ output[1] \in {"consumer", "provider", null}
    /\ output[1] = "consumer" <=>
         (input.role = "provider" /\ input.provider = <<"yes">>)
    /\ output[1] = "provider" <=>
         (input.role = "consumer" /\ input.provider # <<"yes">>)

OppositeRoleWitness ==
  /\ output = <<"provider">>
  /\ input.role = "consumer"
  /\ input.provider = <<undefined>>

(***************************************************************************)
(* SpecFilter: filter applied to small maps and filters.                   *)
(***************************************************************************)
MaxEntries == 2

FilterKeys ==
  { <<a>> : a \in {"", "a", "A", "b", "ab", "aB", "axb", "a\nb", "a.b", "a*", "a+"} }
  \cup { <<a, b>> : a \in {"a", "ab", "a\nb"}, b \in {"", "b"} }

FilterPatterns ==
  { <<a>> : a \in {"", "a", "A", "*", "a*", "*b", "a*b", "a.b", "**", ".", "a+"} }
  \cup { <<a, b>> : a \in {"a*", "*"}, b \in {"*", "b"} }

FilterValue(i) == IF i % 2 = 1 THEN <<"v1">> ELSE <<"v2">>

FilterMaps ==
  UNION { { [i \in 1..n |-> [key |-> ks[i], value |-> FilterValue(i)]] :
              ks \in { f \in [1..n -> FilterKeys] :
                         \A i, j \in 1..n : i # j => f[i] # f[j] } } :
          n \in 0..MaxEntries }

InitFilter ==
  /\ EngineUnused
  /\ input \in [keys : FilterMaps, filter : FilterPatterns]
  /\ output = <<>>

ApplyFilter ==
  /\ output = <<>>
  /\ output' = <<filter(input.keys, input.filter)>>
  /\ UNCHANGED <<input, engineVars>>

SpecFilter == InitFilter /\ [][ApplyFilter]_vars

\* A glob read directly: '*' stands for any run of characters none of which is
\* in `excluded`; every other character stands for itself, case-insensitively.
RECURSIVE Glob(_, _, _)
Glob(text, pat, excluded) ==
  IF pat = <<>> THEN text = <<>>
  ELSE IF Head(pat) = "*"
    THEN \E k \in 0..Len(text) :
           /\ \A i \in 1..k : text[i] \notin excluded
           /\ Glob(SubSeq(text, k + 1, Len(text)), Tail(pat), excluded)
    ELSE /\ text # <<>>
         /\ Canonicalize(Head(text)) = Canonicalize(Head(pat))
         /\ Glob(Tail(text), Tail(pat), excluded)

GlobEntries(keys, filters, excluded) ==
  SelectSeq(keys, LAMBDA e :
    /\ Len(e.key) = Len(filters)
    /\ \A n \in 1..Len(filters) :
         Glob(Chars(e.key[n]), Chars(filters[n]), excluded))

MaxStartId == 1

\* The defaults of the two capabilities, each of which a cache may hold.
DefaultChoices ==
  { Default(NAX, "provider", "p1", "a", "p1"),
    Default(NAX, "provider", "p1", "b", "p2"),
    Default(NBX, "consumer", "p1", "b", "c2"),
    Default(NBX, "consumer", "p1", "c", "c3") }

\* The records a cache may hold: either side of the pair, the provider's side
\* under id c1 and the consumer's under c2, and a record of the provider that
\* points at another consumer.
RecordChoices ==
  { ProviderSide(NAX, NBX, "p1", "c1"),
    ConsumerSide(NAX, NBX, "p1", "c2"),
    ProviderSide(NAX, NBY, "p1", "c2") }

CandidateCaches ==
  { all(StoreOf(S1 \cup UNION ds \cup UNION rs)) :
      ds \in SUBSET DefaultChoices, rs \in SUBSET RecordChoices }

InitCandidate ==
  /\ EngineUnused
  /\ input \in [cache : CandidateCaches, n : 0..MaxStartId]
  /\ output = <<>>

ApplyCandidate ==
  /\ output = <<>>
  /\ \E b \in {build(input.cache)} :
       output' = <<connections(input.cache, b.add, input.n)>>
  /\ UNCHANGED <<input, engineVars>>

SpecCandidate == InitCandidate /\ [][ApplyCandidate]_vars

\* The properties/* entries of a capability in the cache, name to value.
DefaultsOf(c, endpoint, role, profile) ==
  LET ns == endpoint \o <<role, profile, "properties">>
      m  == valueOf(c)
      ks == { k \in DOMAIN m : Len(k) = Len(ns) + 1 /\ SubSeq(k, 1, Len(ns)) = ns }
  IN  [name \in { k[Len(k)] : k \in ks } |-> m[ns \o <<name>>]]

\* The union of two such sets, the second one's value on a name of both.
Union(p, q) ==
  [name \in DOMAIN p \cup DOMAIN q |-> IF name \in DOMAIN q THEN q[name] ELSE p[name]]

\* The property set the puts write under the given connection record.
Written(puts, ns) ==
  LET at == { i \in 1..Len(puts) :
                /\ Len(puts[i].key) = Len(ns) + 2
                /\ SubSeq(puts[i].key, 1, Len(ns) + 1) = ns \o <<"properties">> }
  IN  { <<puts[i].key[Len(ns) + 2], puts[i].value>> : i \in at }

\* The connection records the puts create: the prefix .../connections/{id} of
\* every pointer among them.
Created(puts) ==
  { SubSeq(puts[i].key, 1, 10) :
      i \in { j \in 1..Len(puts) :
                /\ Len(puts[j].key) = 11
                /\ puts[j].key[9] = "connections"
                /\ puts[j].key[11] \in {"provider", "consumer"} } }

AsPairs(f) == { <<name, f[name]>> : name \in DOMAIN f }

\* C14: every side of a connection that build() creates is written with the
\* union of the provider capability's and the consumer capability's defaults,
\* the consumer's value on every name of both, and nothing else; both sides,
\* when both are created, receive the same set.
DefaultMerge ==
  output # <<>> =>
    \A ns \in Created(output[1].puts) :
      Written(output[1].puts, ns)
        = AsPairs(Union(DefaultsOf(input.cache, NAX, "provider", "p1"),
                        DefaultsOf(input.cache, NBX, "consumer", "p1")))

\* The example of the claim: provider {a: p1, b: p2} and consumer {b: c2, c: c3}
\* give {a: p1, b: c2, c: c3} on both sides of a new connection.
DefaultMergeWitness ==
  /\ output # <<>>
  /\ AsPairs(DefaultsOf(input.cache, NAX, "provider", "p1"))
       = {<<"a", <<"p1">>>>, <<"b", <<"p2">>>>}
  /\ AsPairs(DefaultsOf(input.cache, NBX, "consumer", "p1"))
       = {<<"b", <<"c2">>>>, <<"c", <<"c3">>>>}
  /\ Cardinality(Created(output[1].puts)) = 2
  /\ \A ns \in Created(output[1].puts) :
       Written(output[1].puts, ns)
         = {<<"a", <<"p1">>>>, <<"b", <<"c2">>>>, <<"c", <<"c3">>>>}

\* The ids under which the cache holds the given side of the pair NAX, NBX.
SideIds(c, role) ==
  LET m == valueOf(c)
  IN  IF role = "provider"
        THEN { k[10] : k \in { j \in DOMAIN m :
                 /\ Len(j) = 11
                 /\ SubSeq(j, 1, 9) = NAX \o <<"provider", "p1", "connections">>
                 /\ j[11] = "consumer" /\ m[j] = NBX } }
        ELSE { k[10] : k \in { j \in DOMAIN m :
                 /\ Len(j) = 11
                 /\ SubSeq(j, 1, 9) = NBX \o <<"consumer", "p1", "connections">>
                 /\ j[11] = "provider" /\ m[j] = NAX } }

\* C15: with exactly one side of the pair in the cache, build() writes the
\* other side, and only it, under the id of the side that is there and
\* generates no id; with neither side it writes both under one generated id.
IdPreserved ==
  output # <<>> =>
    LET p == SideIds(input.cache, "provider")
        c == SideIds(input.cache, "consumer")
        puts == output[1].puts
    IN  /\ (p # {} /\ c = {}) =>
              /\ Created(puts) = { NBX \o <<"consumer", "p1", "connections", id>> : id \in p }
              /\ output[1].nextId = input.n
        /\ (p = {} /\ c # {}) =>
              /\ Created(puts) = { NAX \o <<"provider", "p1", "connections", id>> : id \in c }
              /\ output[1].nextId = input.n
        /\ (p = {} /\ c = {}) =>
              /\ Created(puts) = { NAX \o <<"provider", "p1", "connections", IdNames[input.n + 1]>>,
                                   NBX \o <<"consumer", "p1", "connections", IdNames[input.n + 1]>> }
              /\ output[1].nextId = input.n + 1
        /\ (p # {} /\ c # {}) => (puts = <<>> /\ output[1].nextId = input.n)

IdPreservedWitness ==
  /\ output # <<>>
  /\ SideIds(input.cache, "provider") = {"c1"}
  /\ SideIds(input.cache, "consumer") = {}
  /\ Created(output[1].puts) = {NBX \o <<"consumer", "p1", "connections", "c1">>}
  /\ output[1].nextId = input.n

(***************************************************************************)
(* SpecRevision: the matchmaker of the nodes/contexts revision             *)
(* (src/unnamed/part_003) and the one of src/index.js on the same content  *)
(* of the one network that revision knows, cns/network.                    *)
(***************************************************************************)
\* all(prefix): the entries of the store whose key starts with the prefix.
allUnder(s, prefix) ==
  inKeyOrder({ [key |-> k, value |-> s[k]] :
               k \in { j \in DOMAIN s :
                         /\ Len(keyText(j)) >= Len(keyText(prefix))
                         /\ SubSeq(keyText(j), 1, Len(keyText(prefix))) = keyText(prefix) } })

\* A variant of capabilities that does not compare the versions.
capabilitiesAnyVersion(network, provider, node, context, profile, version) ==
  LET consumer == <<"cns", "network", "nodes", node, "contexts", context>>
  IN  forIn(filter(network, consumer \o <<"consumer", profile, "version">>),
            LAMBDA capability :
              <<[provider |-> provider, consumer |-> consumer,
                 profile |-> profile, version |-> version]>>)

\* capabilities(), contexts() and nodes() of the revision, 622-667: what each
\* pushes on add, in order.
capabilities(network, provider, node, context, profile, version) ==
  LET consumer == <<"cns", "network", "nodes", node, "contexts", context>>
  IN  forIn(filter(network, consumer \o <<"consumer", profile, "version">>),
            LAMBDA capability :
              IF capability.value = version
                THEN <<[provider |-> provider, consumer |-> consumer,
                        profile |-> profile, version |-> version]>>
                ELSE <<>>)

contexts(network, provider, node, profile, version) ==
  forIn(filter(network, <<"cns", "network", "nodes", node, "contexts", "*", "name">>),
        LAMBDA e : capabilities(network, provider, node, part(e.key, 5), profile, version))

nodes(network, provider, profile, version) ==
  forIn(filter(network, <<"cns", "network", "nodes", "*", "name">>),
        LAMBDA e : contexts(network, provider, part(e.key, 3), profile, version))

\* consumers() of the revision, 611-619, mode being the revision's global.
consumersOfRevision(mode, network, node, context, profile, version) ==
  LET provider == <<"cns", "network", "nodes", node, "contexts", context>>
  IN  CASE mode = <<"nodes">>    -> nodes(network, provider, profile, version)
        [] mode = <<"contexts">> -> contexts(network, provider, node, profile, version)
        [] OTHER -> <<>>

\* isValidMode() of the revision, 277-285.
isValidModeOfRevision(mode) == mode \in {<<"nodes">>, <<"contexts">>}

\* build() of the revision, 552-607, up to its call of connections(): the
\* candidates it collects from the content of cns/network.
buildOfRevision(mode, network) ==
  LET ofContext(node, context) ==
        forIn(filter(network, <<"cns", "network", "nodes", node, "contexts", context,
                                "provider", "*", "version">>),
              LAMBDA e : consumersOfRevision(mode, network, node, context,
                                             part(e.key, 7), e.value))
      ofNode(node) ==
        forIn(filter(network, <<"cns", "network", "nodes", node, "contexts", "*", "name">>),
              LAMBDA e : ofContext(node, part(e.key, 5)))
  IN  IF ~isValidModeOfRevision(mode) THEN <<>>
      ELSE forIn(filter(network, <<"cns", "network", "nodes", "*", "name">>),
                 LAMBDA e : ofNode(part(e.key, 3)))

\* The contents of cns/network: nodes A and B with contexts X and Y each, a
\* provider of p1 version 1 in A/X, possibly one in B/Y, and a consumer of p1
\* in any of the four contexts, of version 2 in B/Y and of version 1 elsewhere.
RevisionBase ==
  {Entry(<<"cns", "network", "name">>, <<"network">>)}
  \cup Context("network", "A", "X") \cup Context("network", "A", "Y")
  \cup Context("network", "B", "X") \cup Context("network", "B", "Y")
  \cup Capability(Endpoint("network", "A", "X"), "provider", "p1", "1")

RevisionChoices ==
  { Capability(Endpoint("network", "B", "Y"), "provider", "p1", "1"),
    Capability(Endpoint("network", "A", "X"), "consumer", "p1", "1"),
    Capability(Endpoint("network", "A", "Y"), "consumer", "p1", "1"),
    Capability(Endpoint("network", "B", "X"), "consumer", "p1", "1"),
    Capability(Endpoint("network", "B", "Y"), "consumer", "p1", "2") }

\* The store with the orchestrator key of the one network set to the mode.
InMode(entries, mode) ==
  StoreOf(entries \cup {Entry(<<"cns", "network", "orchestrator">>, <<mode>>)})

InitRevision ==
  /\ EngineUnused
  /\ input \in [entries : { RevisionBase \cup UNION cs : cs \in SUBSET RevisionChoices },
                mode    : {"nodes", "contexts"}]
  /\ output = <<>>

ApplyRevision ==
  /\ output = <<>>
  /\ \E old \in {buildOfRevision(<<input.mode>>,
                                 allUnder(InMode(input.entries, input.mode),
                                          <<"cns", "network">>))},
        a \in {build(all(InMode(input.entries, "allsystems")))},
        b \in {build(all(InMode(input.entries, "bysystem")))} :
       output' = <<[revision |-> old, allsystems |-> a.add, bysystem |-> b.add]>>
  /\ UNCHANGED <<input, engineVars>>

SpecRevision == InitRevision /\ [][ApplyRevision]_vars

Pairs(add) == { add[i] : i \in DOMAIN add }

\* C30 as written: every pair the matchmaker of the nodes/contexts revision
\* emits is emitted by the allsystems/bysystem matchmaker on the same content
\* under allsystems or under bysystem.
RevisionSubsumed ==
  output # <<>> =>
    Pairs(output[1].revision) \subseteq
      Pairs(output[1].allsystems) \cup Pairs(output[1].bysystem)

\* C30 as amended: every pair the revision emits whose consumer is in a context
\* of the provider's context name is emitted under bysystem and under
\* allsystems.
RevisionSubsumedWithinContextName ==
  output # <<>> =>
    { p \in Pairs(output[1].revision) : p.consumer[6] = p.provider[6] }
      \subseteq Pairs(output[1].allsystems) \cap Pairs(output[1].bysystem)

\* The revision pairs the provider in A/X with the consumer in B/X.
RevisionReached ==
  /\ output # <<>>
  /\ input.mode = "nodes"
  /\ \E p \in Pairs(output[1].revision) \cap Pairs(output[1].bysystem) :
       /\ p.provider = Endpoint("network", "A", "X")
       /\ p.consumer = Endpoint("network", "B", "X")

(***************************************************************************)
(* SpecOrder: build() and connections() run to their end on two caches of  *)
(* the same content, one in key order as all('cns') returns it and one in  *)
(* the opposite order, no watch event being handled during either run.     *)
(***************************************************************************)
\* Every put of one run of connections(add) on a cache that stays as it is.
RECURSIVE connectionsToEnd(_, _, _)
connectionsToEnd(c, add, n) ==
  bind(connections(c, add, n),
       LAMBDA r : IF r.puts = <<>> THEN <<>>
                  ELSE r.puts \o connectionsToEnd(c, r.add, r.nextId))

Reverse(seq) == [i \in 1..Len(seq) |-> seq[Len(seq) + 1 - i]]

\* What a cache may hold besides scenario S1: records of either side of its
\* pair under ids c1 and c2, and a default on either capability.
OrderChoices ==
  { ProviderSide(NAX, NBX, "p1", "c1"),
    ProviderSide(NAX, NBX, "p1", "c2"),
    ConsumerSide(NAX, NBX, "p1", "c1"),
    ConsumerSide(NAX, NBX, "p1", "c2"),
    Default(NAX, "provider", "p1", "a", "p1"),
    Default(NBX, "consumer", "p1", "b", "c2") }

InitOrder ==
  /\ EngineUnused
  /\ input \in { all(StoreOf(S1 \cup UNION cs)) : cs \in SUBSET OrderChoices }
  /\ output = <<>>

ApplyOrder ==
  /\ output = <<>>
  /\ \E c1 \in {input}, c2 \in {Reverse(input)} :
       \E b1 \in {build(c1)}, b2 \in {build(c2)} :
         output' = <<[inKeyOrder |-> connectionsToEnd(c1, b1.add, 0),
                      reversed   |-> connectionsToEnd(c2, b2.add, 0)]>>
  /\ UNCHANGED <<input, engineVars>>

SpecOrder == InitOrder /\ [][ApplyOrder]_vars

PutSet(puts) == { puts[i] : i \in DOMAIN puts }

\* C29: two runs of build() on caches of equal content that are iterated in
\* different orders issue the same set of puts, the id reused for an existing
\* side included.
BuildOrderFree ==
  output # <<>> => PutSet(output[1].inKeyOrder) = PutSet(output[1].reversed)

\* The same of the caches that hold at most one record of the provider's side
\* and at most one of the consumer's side of the pair.
BuildOrderFreeWithoutDuplicates ==
  (/\ output # <<>>
   /\ Cardinality(SideIds(input, "provider")) <= 1
   /\ Cardinality(SideIds(input, "consumer")) <= 1)
  => PutSet(output[1].inKeyOrder) = PutSet(output[1].reversed)

\* One side is there once and the other is written under its id in both runs.
BuildOrderReached ==
  /\ output # <<>>
  /\ SideIds(input, "provider") = {"c2"}
  /\ SideIds(input, "consumer") = {}
  /\ PutSet(output[1].inKeyOrder) = PutSet(output[1].reversed)
  /\ Created(output[1].reversed) = {NBX \o <<"consumer", "p1", "connections", "c2">>}

(***************************************************************************)
(* SpecParse: main(), 66-84, from its start to the end of parse(), 108-177,*)
(* on every argument list of ParseArgs and both settings of CNS_HOST.      *)
(***************************************************************************)
MaxArgs == 3

E_OPTION == "Illegal option"
E_MISSING == "Missing argument"

\* new Error(text + ': ' + arg).message
message(text, arg) == <<text, ": ", arg>>

\* const defaults, 31-36, and const config, 40-45: process.env.X || defaults.X.
defaults == [host |-> "127.0.0.1", port |-> "2379", username |-> "", password |-> ""]

config(env) ==
  [f \in DOMAIN defaults |-> IF env[f] # "" THEN env[f] ELSE defaults[f]]

\* A variant of next that returns undefined where no argument is left.
nextUnchecked(arg, args) ==
  IF args = <<>>
    THEN [threw |-> FALSE, value |-> undefined, args |-> args]
    ELSE [threw |-> FALSE, value |-> Head(args), args |-> Tail(args)]

\* next(), 171-177.
next(arg, args) ==
  IF args = <<>>
    THEN [threw |-> TRUE, message |-> message(E_MISSING, arg)]
    ELSE [threw |-> FALSE, value |-> Head(args), args |-> Tail(args)]

\* The field of config that a value-taking option sets.
fieldOf(arg) ==
  CASE arg \in {"-H", "--host"}     -> "host"
    [] arg \in {"-P", "--port"}     -> "port"
    [] arg \in {"-u", "--username"} -> "username"
    [] arg \in {"-p", "--password"} -> "password"

\* parse(), 108-167: how it ends (it returns, it throws, or exit() ends the
\* process at -h or -v) and the configuration it leaves.
RECURSIVE parse(_, _)
parse(args, cfg) ==
  IF args = <<>> THEN [end |-> "return", config |-> cfg]
  ELSE
    LET arg  == Head(args)
        rest == Tail(args)
    IN  CASE arg \in {"-h", "--help", "-v", "--version"} ->
               [end |-> "exit", config |-> cfg]
          [] arg \in {"-H", "--host", "-P", "--port", "-u", "--username",
                      "-p", "--password"} ->
               LET n == next(arg, rest)
               IN  IF n.threw
                     THEN [end |-> "throw", message |-> n.message, config |-> cfg]
                     ELSE parse(n.args, [cfg EXCEPT ![fieldOf(arg)] = n.value])
          [] arg \in {"-m", "--monochrome", "-s", "--silent", "-d", "--debug"} ->
               parse(rest, cfg)
          [] OTHER ->
               [end |-> "throw", message |-> message(E_OPTION, arg), config |-> cfg]

\* main() up to connect(): where parse() threw, the catch logs the message and
\* calls exit(1), which finds no timer and no client and ends the process;
\* where it called exit(), the process has ended with the default code 0;
\* otherwise connect() is about to create the client.
main(argv, env) ==
  LET r == parse(argv, config(env))
  IN  CASE r.end = "throw" ->
             [exit |-> <<1>>, logged |-> <<r.message>>, client |-> undefined,
              timer |-> <<>>, config |-> r.config]
        [] r.end = "exit" ->
             [exit |-> <<0>>, logged |-> <<>>, client |-> undefined,
              timer |-> <<>>, config |-> r.config]
        [] OTHER ->
             [exit |-> <<>>, logged |-> <<>>, client |-> "connecting",
              timer |-> <<>>, config |-> r.config]

ValueFlags == {"-H", "-P", "-u", "-p", "--host", "--port", "--username", "--password"}
PlainFlags == {"-m", "--monochrome", "-s", "--silent", "-d", "--debug"}
EndFlags == {"-h", "--help", "-v", "--version"}
KnownOptions == ValueFlags \cup PlainFlags \cup EndFlags

\* The arguments tried: some options of each kind, an unknown option and two
\* words that are no options.
ArgWords == {"-H", "--port", "-u", "-p", "-d", "-h", "-x", "example", "2380"}

ParseArgs == UNION { [1..n -> ArgWords] : n \in 0..MaxArgs }

ParseEnvs ==
  { [host |-> h, port |-> "", username |-> "", password |-> ""] :
      h \in {"", "env-host"} }

InitParse ==
  /\ EngineUnused
  /\ input \in [argv : ParseArgs, env : ParseEnvs]
  /\ output = <<>>

ApplyParse ==
  /\ output = <<>>
  /\ output' = <<main(input.argv, input.env)>>
  /\ UNCHANGED <<input, engineVars>>

SpecParse == InitParse /\ [][ApplyParse]_vars

\* C27 as written: an argument that is no known option ends startup with code
\* 1 and 'Illegal option' naming it, a value-taking flag in last place ends it
\* with code 1 and 'Missing argument' naming it, in both cases with no client
\* and no timer, and otherwise every value flag has overridden the
\* environment's value.
ParseRejects ==
  output # <<>> =>
    LET argv == input.argv
        r    == output[1]
        unknown == { i \in DOMAIN argv : argv[i] \notin KnownOptions }
        missing == argv # <<>> /\ argv[Len(argv)] \in
                     {"-H", "-P", "-u", "-p"}
    IN  /\ unknown # {} =>
             /\ r.exit = <<1>>
             /\ \E i \in unknown : r.logged = <<message(E_OPTION, argv[i])>>
             /\ r.client = undefined /\ r.timer = <<>>
        /\ missing =>
             /\ r.exit = <<1>>
             /\ r.logged = <<message(E_MISSING, argv[Len(argv)])>>
             /\ r.client = undefined /\ r.timer = <<>>
        /\ (unknown = {} /\ ~missing) =>
             \A i \in DOMAIN argv :
               (argv[i] \in ValueFlags /\ i < Len(argv))
                 => r.config[fieldOf(argv[i])] # config(input.env)[fieldOf(argv[i])]

\* The places at which an argument is read as an option: the first, and the
\* one after an option and after the value a value-taking flag has consumed.
RECURSIVE OptionPlaces(_, _)
OptionPlaces(argv, i) ==
  IF i > Len(argv) THEN {}
  ELSE {i} \cup (IF argv[i] \in ValueFlags THEN OptionPlaces(argv, i + 2)
                                         ELSE OptionPlaces(argv, i + 1))

\* The first place at which parsing stops: at -h or -v, at an argument read as
\* an option that is none, or at a value-taking flag that nothing follows.
Stops(argv, i) ==
  \/ argv[i] \in EndFlags
  \/ argv[i] \notin KnownOptions
  \/ argv[i] \in ValueFlags /\ i = Len(argv)

FirstStop(argv) ==
  LET at == { i \in OptionPlaces(argv, 1) : Stops(argv, i) }
  IN  IF at = {} THEN 0 ELSE CHOOSE i \in at : \A j \in at : i <= j

\* C27 as amended: the arguments are read from the left, a value-taking flag
\* taking the argument after it as its value.  Where the first argument at
\* which parsing stops is read as an option and is none, startup ends with code
\* 1 and 'Illegal option' naming it; where it is a value-taking flag that
\* nothing follows, with code 1 and 'Missing argument' naming it; in both
\* cases no client is created and no timer armed.  Where parsing does not stop,
\* every field of the configuration holds the value of the last flag that sets
\* it, and the environment's value where no flag does.
ParseRejectsFirst ==
  output # <<>> =>
    LET argv == input.argv
        r    == output[1]
        stop == FirstStop(argv)
        sets(f) == { i \in OptionPlaces(argv, 1) :
                       argv[i] \in ValueFlags /\ fieldOf(argv[i]) = f }
    IN  /\ (stop # 0 /\ argv[stop] \notin KnownOptions) =>
             /\ r.exit = <<1>>
             /\ r.logged = <<message(E_OPTION, argv[stop])>>
             /\ r.client = undefined /\ r.timer = <<>>
        /\ (stop # 0 /\ argv[stop] \in ValueFlags) =>
             /\ r.exit = <<1>>
             /\ r.logged = <<message(E_MISSING, argv[stop])>>
             /\ r.client = undefined /\ r.timer = <<>>
        /\ (stop # 0 /\ argv[stop] \in EndFlags) =>
             /\ r.exit = <<0>> /\ r.logged = <<>>
             /\ r.client = undefined /\ r.timer = <<>>
        /\ stop = 0 =>
             /\ r.exit = <<>>
             /\ \A f \in DOMAIN defaults :
                  r.config[f] =
                    IF sets(f) = {} THEN config(input.env)[f]
                    ELSE argv[(CHOOSE i \in sets(f) : \A j \in sets(f) : j <= i) + 1]

\* Startup has ended at -u in last place, after -H has set the host.
ParseWitness ==
  /\ output # <<>>
  /\ input.argv = <<"-H", "example", "-u">>
  /\ input.env.host = "env-host"
  /\ output[1].exit = <<1>>
  /\ output[1].logged = <<message(E_MISSING, "-u")>>
  /\ output[1].config.host = "example"
  /\ output[1].client = undefined

(***************************************************************************)
(* The life of the process: connect(), the faults it meets, exit().        *)
(***************************************************************************)
MaxFaults == 1

E_PUT == "Failed to put"
E_WATCH == "Failed to watch"

\* The put handler's try/catch, 222-233 (the delete handler's, 234-245, is the
\* same): the error is logged and the process goes on.
handlerUncaught(p) == "exited"

handlerCatch(p) == p

\* The timer callback's try/catch round build(), 500-506.
timerUncaught(p) == "exited"

timerCatch(p) == p

\* exit(code), 862-869, up to its first await: cancel() first, then
\* disconnect() starts with the watcher, or with the client when no watcher is
\* there; without a client the process ends at once.
exitKeepingTimer(t, a, cl, w) ==
  [timer |-> t, armed |-> a,
   pc |-> IF cl = undefined THEN "exited"
          ELSE IF w # undefined THEN "unwatch" ELSE "close"]

exit(t, a, cl, w) ==
  LET cancelled == cancel(t, a)
  IN  [timer |-> cancelled.timer, armed |-> cancelled.armed,
       pc |-> IF cl = undefined THEN "exited"
              ELSE IF w # undefined THEN "unwatch" ELSE "close"]

\* connect(), 208-211: the client is created and `cache = await all('cns')`
\* takes what the store holds at that moment.
ConnectAll ==
  /\ pc = "all"
  /\ client' = "open"
  /\ cache' = all(store)
  /\ pc' = "watch"
  /\ last' = [op |-> "all"]
  /\ UNCHANGED <<store, events, timer, armed, tasks, nextId, menu, external, calls,
                 settled, watcher, faults, errors, input, output>>

\* connect(), 213-256, and main(), 76-79: `watcher = await watch('cns')`
\* creates the watch, the handlers are bound, and main() calls rebuild().
ConnectWatch ==
  /\ pc = "watch"
  /\ watcher' = "open"
  /\ \E r \in {rebuild(timer, armed)} :
       /\ timer' = r.timer
       /\ armed' = r.armed
  /\ calls' = calls + 1
  /\ pc' = "running"
  /\ last' = [op |-> "watch"]
  /\ UNCHANGED <<store, cache, events, tasks, nextId, menu, external, settled,
                 client, faults, errors, input, output>>

\* The SIGINT handler, 890-893: exit(1) runs to its first await.
Signal ==
  /\ pc = "running"
  /\ faults > 0
  /\ faults' = faults - 1
  /\ \E x \in {exit(timer, armed, client, watcher)} :
       /\ timer' = x.timer
       /\ armed' = x.armed
       /\ pc' = x.pc
  /\ last' = [op |-> "signal"]
  /\ UNCHANGED <<store, cache, events, tasks, nextId, menu, external, calls,
                 settled, client, watcher, errors, input, output>>

\* disconnect(), 845-850: `await watcher.cancel()` is over; the watch is
\* gone, with the events it had not yet delivered, and client.close() starts.
ExitUnwatch ==
  /\ pc = "unwatch"
  /\ watcher' = undefined
  /\ events' = <<>>
  /\ pc' = "close"
  /\ last' = [op |-> "unwatch"]
  /\ UNCHANGED <<store, cache, timer, armed, tasks, nextId, menu, external, calls,
                 settled, client, faults, errors, input, output>>

\* disconnect(), 853-858, and exit(), 868: `await client.close()` is over and
\* process.exit(code) ends the process.
ExitClose ==
  /\ pc = "close"
  /\ client' = undefined
  /\ pc' = "exited"
  /\ last' = [op |-> "exit", code |-> 1]
  /\ UNCHANGED <<store, cache, events, timer, armed, tasks, nextId, menu, external,
                 calls, settled, watcher, faults, errors, input, output>>

\* The watcher's 'error' listener, 250-253, throws a new Error out of the
\* emitter.  Where the emitter was called from decides what becomes of it: an
\* uncaught exception ends the process as it stands, a rejected promise
\* nobody handles is reported and the process goes on.  exit() is not called.
WatcherError ==
  /\ pc \in {"running", "unwatch"}
  /\ watcher # undefined
  /\ faults > 0
  /\ faults' = faults - 1
  /\ \E outcome \in {"uncaught", "reported"} :
       /\ pc' = IF outcome = "uncaught" THEN "exited" ELSE pc
       /\ last' = [op |-> "watcherError", message |-> E_WATCH,
                    outcome |-> outcome, was |-> pc]
  /\ UNCHANGED <<store, cache, events, timer, armed, tasks, nextId, menu, external,
                 calls, settled, client, watcher, errors, input, output>>

\* put(), 798-809, when the store rejects the put a task waits for: put()
\* throws E_PUT, the task ends there, and the try/catch round it (the
\* handler's for update and propagate, the timer callback's for build) logs
\* the error.
StoreFail ==
  /\ pc # "exited"
  /\ faults > 0
  /\ faults' = faults - 1
  /\ \E i \in 1..Len(tasks) :
       /\ tasks[i].phase = "sent"
       /\ tasks' = without(tasks, i)
       /\ errors' = Append(errors, [kind |-> tasks[i].kind, message |-> E_PUT])
       /\ pc' = IF tasks[i].kind = "build" THEN timerCatch(pc) ELSE handlerCatch(pc)
       /\ last' = [op |-> "fail", kind |-> tasks[i].kind]
  /\ UNCHANGED <<store, cache, events, timer, armed, nextId, menu, external, calls,
                 settled, client, watcher, input, output>>

LifeScenarios == {S1, S1Connected, S1Pair}

LifeMutations ==
  { Put(<<"cns", "N", "orchestrator">>, <<"bysystem">>),
    Put(NAX \o <<"provider", "p1", "properties", "x">>, <<"v2">>),
    Put(NAX \o <<"provider", "p1", "connections", "c1", "properties", "x">>, <<"v2">>),
    Delete(NBX \o <<"consumer", "p1", "version">>) }

\* main(process.argv.slice(2)), 896, after parse(): nothing is connected.
InitLife ==
  /\ \E entries \in LifeScenarios : store = StoreOf(entries)
  /\ cache = <<>>
  /\ events = <<>>
  /\ timer = <<>>
  /\ armed = {}
  /\ tasks = <<>>
  /\ nextId = 0
  /\ menu = LifeMutations
  /\ external = MaxExternal
  /\ calls = 0
  /\ settled = FALSE
  /\ last = [op |-> "main"]
  /\ client = undefined
  /\ watcher = undefined
  /\ pc = "all"
  /\ faults = MaxFaults
  /\ errors = <<>>
  /\ input = <<>>
  /\ output = <<>>

NextLife ==
  \/ ConnectAll \/ ConnectWatch
  \/ External \/ DeliverPut \/ DeliverDelete \/ TimerFire \/ StoreApply \/ Resume
  \/ StoreFail \/ WatcherError
  \/ Signal \/ ExitUnwatch \/ ExitClose

SpecLife == InitLife /\ [][NextLife]_vars

(***************************************************************************)
(* Properties of the life of the process.                                  *)
(***************************************************************************)
StorePairs == { <<k, store[k]>> : k \in { j \in DOMAIN store : watched(j) } }

CachePairs == { <<cache[i].key, cache[i].value>> : i \in DOMAIN cache }

Watching == watcher # undefined /\ pc \in {"running", "unwatch"}

\* C22: while the engine is connected and has handled every event the store
\* emitted, the cache holds exactly the pairs the store holds under prefix
\* cns, whatever other clients did between the prefix-get and the watch.
CacheMirrorsStore == (Watching /\ events = <<>>) => CachePairs = StorePairs

\* What holds of the engine once it watches: the keys under cns/ are mirrored.
CacheMirrorsScope ==
  (Watching /\ events = <<>>)
    => { p \in CachePairs : InScope(p[1]) } = { p \in StorePairs : InScope(p[1]) }

HandlerFailed == \E i \in DOMAIN errors : errors[i].kind \in {"update", "propagate"}

\* C23: when a put issued by update or propagate is rejected, the error is
\* logged and nothing else changes: the cache keeps the event's update, the
\* watch and the process stay as they were, the events still waiting stay
\* queued, and afterwards a waiting event is still handed to its handler.
HandlerErrorSwallowed ==
  /\ [][ (last'.op = "fail" /\ last'.kind \in {"update", "propagate"})
          => /\ errors' = Append(errors, [kind |-> last'.kind, message |-> E_PUT])
             /\ UNCHANGED <<cache, store, events, timer, armed, watcher, client, pc>>
       ]_vars
  /\ []((HandlerFailed /\ Watching /\ events # <<>>)
          => ENABLED (DeliverPut \/ DeliverDelete))

\* An event is classified and dispatched to update or propagate after a
\* handler's put has failed.
HandlerErrorWitness ==
  /\ HandlerFailed
  /\ last.op = "put"
  /\ last.did \in {"update", "propagate"}
  /\ last.puts # <<>>

BuildFailed == \E i \in DOMAIN errors : errors[i].kind = "build"

\* C24: when a put issued by build() is rejected, the error is logged in the
\* timer callback and the process goes on; the timer that started the build
\* was cleared when it fired, and the failure leaves the timer, armed or not,
\* as it is.
BuildErrorSwallowed ==
  /\ [][ (last'.op = "fail" /\ last'.kind = "build")
          => /\ errors' = Append(errors, [kind |-> "build", message |-> E_PUT])
             /\ UNCHANGED <<cache, store, events, timer, armed, watcher, client, pc>>
       ]_vars
  /\ [][ last'.op = "fire" => timer' = <<>> /\ armed' \subseteq armed /\ armed' # armed ]_vars

\* After a failed build a later rebuild() has armed a timer, it has fired and
\* the build it started issues the puts of the connection.
BuildErrorWitness ==
  /\ BuildFailed
  /\ last.op = "fire"
  /\ last.returned = FALSE
  /\ last.puts # <<>>

\* C25 as it is stated: shutdown on a signal cancels the timer, then the
\* watch, then closes the client, then exits with code 1, and once it has
\* begun no build starts and no watch event is dispatched.
ShutdownIsQuiet ==
  (last.op \in {"put", "delete", "fire"}) => pc = "running"

\* C25 as amended: on a signal the armed timer is cancelled at once and the
\* cancelling of the watch begins; then the watch is gone while the client is
\* still open; then the client is closed and the process exits with code 1;
\* no event is dispatched once the watch is gone, and nothing happens after
\* the process has exited.  While the watch is being cancelled, events may
\* still be dispatched and timers armed and fired.
ShutdownInOrder ==
  /\ [][ last'.op = "signal"
          => /\ pc = "running" /\ pc' = "unwatch"
             /\ timer' = <<>>
             /\ armed' = armed \ { timer[i] : i \in DOMAIN timer }
             /\ watcher' = "open" /\ client' = "open" ]_vars
  /\ [][ last'.op = "unwatch"
          => /\ pc = "unwatch" /\ pc' = "close"
             /\ watcher = "open" /\ watcher' = undefined
             /\ client' = "open" ]_vars
  /\ [][ last'.op = "exit"
          => /\ pc = "close" /\ pc' = "exited"
             /\ watcher = undefined
             /\ client = "open" /\ client' = undefined
             /\ last'.code = 1 ]_vars
  /\ [][ pc # "exited" ]_vars
  /\ [][ pc = "close" => last'.op \notin {"put", "delete"} ]_vars

\* The process has exited through the whole sequence, and an event dispatched
\* while the watch was being cancelled had armed a timer again.
ShutdownWitness ==
  /\ last.op = "exit"
  /\ pc = "exited"
  /\ watcher = undefined /\ client = undefined
  /\ armed # {}

\* C26: a watcher error triggers the shutdown that a signal triggers: right
\* after it the armed timer is cancelled and the cancelling of the watch has
\* begun, and a process that has exited has cancelled its watch and closed
\* its client.
WatcherErrorShutsDown ==
  /\ last.op = "watcherError"
       => timer = <<>> /\ armed = {} /\ pc = "unwatch"
  /\ pc = "exited" => watcher = undefined /\ client = undefined

(***************************************************************************)
(* SpecEcho: the engine started on stores that hold a connection already,  *)
(* while another client writes a connection property at the provider's     *)
(* side, where network N says the provider owns it.                        *)
(***************************************************************************)
\* Scenario S3 with its connection there, network M in a valid mode and
\* its profile p1 saying that the consumer owns property x.
S3Split ==
  Network("N", "allsystems") \cup Provider1
  \cup Network("M", "bysystem") \cup Flag("M", "p1", "1", "x", "no")
  \cup Context("M", "B", "X") \cup Capability(MBX, "consumer", "p1", "1")
  \cup ProviderSide(NAX, MBX, "p1", "c1") \cup ConsumerSide(NAX, MBX, "p1", "c1")

\* Scenario S3 with its connection there: both networks say the provider
\* owns property x.
S3Connected ==
  S3 \cup ProviderSide(NAX, MBX, "p1", "c1") \cup ConsumerSide(NAX, MBX, "p1", "c1")

\* S1Connected after the consumer's capability went on to version 2, of
\* which the profile says nothing.
S1Drift ==
  Network("N", "bysystem") \cup Provider1
  \cup Context("N", "B", "X") \cup Capability(NBX, "consumer", "p1", "2")
  \cup ProviderSide(NAX, NBX, "p1", "c1") \cup ConsumerSide(NAX, NBX, "p1", "c1")

EchoScenarios == {S1Connected, S3Connected, S3Split, S1Drift, S1Pair}

EchoMutations ==
  { Put(NAX \o <<"provider", "p1", "connections", "c1", "properties", "x">>, <<"v2">>),
    Put(NAX \o <<"provider", "p1", "connections", "c1", "properties", "x">>, <<"v3">>),
    Delete(NAX \o <<"provider", "p1", "connections", "c1", "consumer">>) }

InitEcho == \E entries \in EchoScenarios : Started(entries, EchoMutations, MaxExternal)

SpecEcho == InitEcho /\ [][Next]_vars

\* C33: under SpecEcho a put event at the consumer's side of a connection
\* comes from update; handling it issues no put.
NoEcho ==
  (last.op = "put" /\ last.did = "update" /\ part(last.key, 6) = "consumer")
    => last.puts = <<>>

\* The provider flag the cache holds for property p of the profile and
\* version of the capability that key lies under.
FlagAt(key, p) ==
  cacheGet(cache, <<"cns", key[2], "profiles", key[8], "versions">>
                  \o concat("version", cacheGet(cache, SubSeq(key, 1, 8) \o <<"version">>))
                  \o <<"properties", p, "provider">>)

\* What holds: no put is issued where the profile of the consumer's network
\* says of the consumer's version that the provider owns the property.
NoEchoWhereFlagsAgree ==
  (/\ last.op = "put" /\ last.did = "update" /\ part(last.key, 6) = "consumer"
   /\ FlagAt(last.key, part(last.key, 11)) = <<"yes">>)
    => last.puts = <<>>

(***************************************************************************)
(* SpecQuiet: the engine started on a store that no other client touches.  *)
(* Node runs a timeout that is due, hands over a watch event that has      *)
(* arrived and resumes a function whose awaited put has been answered.     *)
(***************************************************************************)
\* Scenario S3 in which network M says that the consumer owns property x.
S3Apart ==
  Network("N", "allsystems") \cup Provider1
  \cup Network("M", "bysystem") \cup Flag("M", "p1", "1", "x", "no")
  \cup Context("M", "B", "X") \cup Capability(MBX, "consumer", "p1", "1")

QuietBases == {S1, S1Pair, S1Connected, S2, S3, S3Apart}

QuietExtras ==
  { Default(NAX, "provider", "p1", "x", "v1"),
    Default(NBX, "consumer", "p1", "a", "v2"),
    Default(MBX, "consumer", "p1", "a", "v2") }

InitQuiet ==
  \E base \in QuietBases, extras \in SUBSET QuietExtras :
    Started(base \cup UNION extras, {}, 0)

SpecQuiet ==
  /\ InitQuiet
  /\ [][NextS1]_vars
  /\ WF_vars(DeliverPut)
  /\ WF_vars(TimerFire)
  /\ WF_vars(StoreApply)
  /\ WF_vars(Resume)

Quiet == armed = {} /\ tasks = <<>> /\ events = <<>>

\* C32: left alone, the engine handles none of its own writes by arming the
\* timer, and it comes to rest: no timer armed, no handler in flight, no
\* watch event pending, from then on.
Quiescence ==
  /\ [](last.op = "put" => last.did # "rebuild")
  /\ <>[]Quiet

\* What holds: the engine's own writes never arm the timer, it builds once,
\* and it comes to rest where no two networks disagree on who owns a property.
OwnWritesArmNoTimer ==
  /\ [](last.op = "put" => last.did \in {"update", "none"})
  /\ [][last'.op = "fire" => last.op = "start"]_vars
  /\ (<<"cns", "M", "profiles", "p1", "versions", "version1", "properties", "x",
        "provider">> \notin DOMAIN store) => <>[]Quiet

(***************************************************************************)
(* SpecDuring: another client writes the provider's default of property x  *)
(* while a build() is suspended at a put of a connection it is creating.   *)
(***************************************************************************)
CapabilityX == NAX \o <<"provider", "p1", "properties", "x">>

DuringScenarios ==
  { S1 \cup Default(NAX, "provider", "p1", "x", "v1"),
    S1Pair \cup Default(NAX, "provider", "p1", "x", "v1") }

DuringMutations == { Put(CapabilityX, <<"v2">>) }

InitDuring == \E entries \in DuringScenarios : Started(entries, DuringMutations, MaxExternal)

ExternalDuringBuild ==
  /\ \E i \in DOMAIN tasks : tasks[i].kind = "build" /\ tasks[i].phase = "sent"
  /\ External

NextDuring == ExternalDuringBuild \/ DeliverPut \/ TimerFire \/ StoreApply \/ Resume

SpecDuring == InitDuring /\ [][NextDuring]_vars

\* The values of property x under the provider-side records that N/A/X holds
\* in the store for profile p1; undefined where a record has no such property.
ConnectionValues ==
  { IF SubSeq(k, 1, 10) \o <<"properties", "x">> \in DOMAIN store
      THEN store[SubSeq(k, 1, 10) \o <<"properties", "x">>]
      ELSE <<undefined>> :
    k \in { j \in DOMAIN store :
              /\ Len(j) = 11
              /\ SubSeq(j, 1, 9) = NAX \o <<"provider", "p1", "connections">>
              /\ j[11] = "consumer" } }

\* C35: once the engine is at rest after the default was written during the
\* build, every connection of the capability holds the written value of x on
\* the provider's side, the new connection too.
DefaultChangeWins ==
  (Quiet /\ external = 0) => ConnectionValues \subseteq {store[CapabilityX]}

(***************************************************************************)
(* SpecOverlap: another client writes the provider's default of property x *)
(* twice; the capability has two connections.                              *)
(***************************************************************************)
MaxWrites == 2

OverlapMutations == { Put(CapabilityX, <<"v1">>), Put(CapabilityX, <<"v2">>) }

InitOverlap == Started(S1Twice, OverlapMutations, MaxWrites)

NextOverlap == External \/ DeliverPut \/ TimerFire \/ StoreApply

SpecOverlap == InitOverlap /\ [][NextOverlap]_vars

\* C36: once the engine is at rest after both writes, each connection of the
\* capability holds on the provider's side the value written last.
LastWriteWins ==
  (Quiet /\ external = 0 /\ CapabilityX \in DOMAIN store)
    => \A v \in ConnectionValues : v = store[CapabilityX]

(***************************************************************************)
(* SpecRecover: a put of the build fails, and a later write of another     *)
(* client has the engine build again.                                      *)
(***************************************************************************)
RecoverScenario == S1 \cup Default(NAX, "provider", "p1", "x", "v1")

RecoverMutations == { Put(NBX \o <<"consumer", "p1", "scope">>, <<"X">>) }

InitRecover ==
  /\ store = StoreOf(RecoverScenario)
  /\ cache = all(store)
  /\ events = <<>>
  /\ timer = rebuild(<<>>, {}).timer
  /\ armed = rebuild(<<>>, {}).armed
  /\ tasks = <<>>
  /\ nextId = 0
  /\ menu = RecoverMutations
  /\ external = MaxExternal
  /\ calls = 1
  /\ settled = FALSE
  /\ last = [op |-> "start"]
  /\ client = "open"
  /\ watcher = "open"
  /\ pc = "running"
  /\ faults = MaxFaults
  /\ errors = <<>>
  /\ input = <<>>
  /\ output = <<>>

NextRecover == External \/ DeliverPut \/ TimerFire \/ StoreApply \/ StoreFail

SpecRecover == InitRecover /\ [][NextRecover]_vars

RECURSIVE StoreAfter(_, _)
StoreAfter(s, puts) ==
  IF puts = <<>> THEN s
  ELSE StoreAfter(storePut(s, Head(puts).key, Head(puts).value), Tail(puts))

\* Store s holds the connection of N/A/X and N/B/X for p1 whole: both
\* records under one id, and the default of x under both.
Whole(s) ==
  \E id \in {"i1", "i2", "i3"} :
    LET nsp == NAX \o <<"provider", "p1", "connections", id>>
        nsc == NBX \o <<"consumer", "p1", "connections", id>>
    IN  /\ nsp \o <<"consumer">> \in DOMAIN s /\ s[nsp \o <<"consumer">>] = NBX
        /\ nsc \o <<"provider">> \in DOMAIN s /\ s[nsc \o <<"provider">>] = NAX
        /\ nsp \o <<"properties", "x">> \in DOMAIN s
        /\ nsc \o <<"properties", "x">> \in DOMAIN s

\* C37: a build that starts after a build has failed, with nothing else in
\* flight, sets out to write all that the connection still lacks: with its
\* puts done the store holds the connection whole.
RecoveryCompletes ==
  (last.op = "fire" /\ BuildFailed /\ events = <<>> /\ Len(tasks) <= 1)
    => Whole(StoreAfter(store, last.puts))

\* What holds: the later build brings the two pointer records under one id.
RecoveryLinks ==
  (last.op = "fire" /\ BuildFailed /\ events = <<>> /\ Len(tasks) <= 1)
    => \E id \in {"i1", "i2", "i3"} :
         LET s == StoreAfter(store, last.puts)
             p == NAX \o <<"provider", "p1", "connections", id, "consumer">>
             c == NBX \o <<"consumer", "p1", "connections", id, "provider">>
         IN  p \in DOMAIN s /\ c \in DOMAIN s

(***************************************************************************)
(* SpecDeclared: build() applied to caches that hold a provider of p1 in   *)
(* N/A/X and a consumer of p1 in N/B/X, with any of the name keys of       *)
(* DeclaredChoices beside them.                                            *)
(***************************************************************************)
DeclaredBase ==
  {Entry(<<"cns", "N", "orchestrator">>, <<"bysystem">>)}
  \cup Capability(NAX, "provider", "p1", "1")
  \cup Capability(NBX, "consumer", "p1", "1")

\* The name keys a cache may hold: the network's, those of nodes A and B and
\* of their contexts X, and those of nodes a and b.
DeclaredChoices ==
  { Entry(<<"cns", "N", "name">>, <<"N">>),
    Entry(<<"cns", "N", "nodes", "A", "name">>, <<"A">>),
    Entry(<<"cns", "N", "nodes", "a", "name">>, <<"a">>),
    Entry(NAX \o <<"name">>, <<"X">>),
    Entry(<<"cns", "N", "nodes", "B", "name">>, <<"B">>),
    Entry(<<"cns", "N", "nodes", "b", "name">>, <<"b">>),
    Entry(NBX \o <<"name">>, <<"X">>) }

DeclaredCaches ==
  { all(StoreOf(DeclaredBase \cup ns)) : ns \in SUBSET DeclaredChoices }

InitDeclared ==
  /\ EngineUnused
  /\ input \in DeclaredCaches
  /\ output = <<>>

ApplyDeclared ==
  /\ output = <<>>
  /\ output' = <<build(input)>>
  /\ UNCHANGED <<input, engineVars>>

SpecDeclared == InitDeclared /\ [][ApplyDeclared]_vars

\* The keys of a cache.
KeysOf(c) == { c[i].key : i \in 1..Len(c) }

\* The name keys of the network, the node and the context of an endpoint.
NameKeys(endpoint) ==
  { SubSeq(endpoint, 1, 2) \o <<"name">>,
    SubSeq(endpoint, 1, 4) \o <<"name">>,
    endpoint \o <<"name">> }

\* A segment as the matcher reads it: every letter in one case.
Folded(s) == [j \in 1..Len(Chars(s)) |-> Canonicalize(Chars(s)[j])]

\* Two keys that differ in the case of their letters at most.
SameButCase(k, l) ==
  /\ Len(k) = Len(l)
  /\ \A i \in 1..Len(k) : Folded(k[i]) = Folded(l[i])

\* The endpoints of the candidates build() emitted.
Matched == IF output = <<>> THEN {}
           ELSE UNION { {output[1].add[i].provider, output[1].add[i].consumer} :
                          i \in 1..Len(output[1].add) }

\* The endpoints of the capabilities in the cache.
Capable(role) ==
  { SubSeq(k, 1, 6) : k \in { l \in KeysOf(input) :
                                Len(l) = 9 /\ l[7] = role /\ l[9] = "version" } }

\* C39 as stated: the name keys of the network, node and context of every
\* endpoint build() emits a candidate for are keys of the cache.
MatchedAreDeclared ==
  \A e \in Matched : NameKeys(e) \subseteq KeysOf(input)

\* What build() keeps of it: every endpoint it emits a candidate for has the
\* three name keys in the cache up to the case of their letters, every
\* candidate stands for a provider and a consumer capability of the cache up
\* to case, and a capability under a node or context that has no name key
\* even up to case is in no candidate.
MatchedAreDeclaredUpToCase ==
  output # <<>> =>
    /\ \A e \in Matched :
         \A n \in NameKeys(e) : \E k \in KeysOf(input) : SameButCase(k, n)
    /\ \A i \in 1..Len(output[1].add) :
         /\ \E p \in Capable("provider") : SameButCase(p, output[1].add[i].provider)
         /\ \E c \in Capable("consumer") : SameButCase(c, output[1].add[i].consumer)
    /\ \A e \in Capable("provider") \cup Capable("consumer") :
         (\E n \in NameKeys(e) : \A k \in KeysOf(input) : ~SameButCase(k, n))
           => \A m \in Matched : ~SameButCase(m, e)

(***************************************************************************)
(* SpecSelf: build() and connections() applied to caches in which context  *)
(* N/A/X, the only one of the network, both provides and consumes p1.      *)
(***************************************************************************)
SelfVersions == {"1", "2"}

SelfModes == {"bysystem", "allsystems"}

\* The defaults N/A/X may declare on either role.
SelfDefaults ==
  { Default(NAX, "provider", "p1", "x", "v1"),
    Default(NAX, "consumer", "p1", "x", "v2") }

\* The records of the connection of N/A/X with itself under id c1.
SelfRecords ==
  { ProviderSide(NAX, NAX, "p1", "c1"), ConsumerSide(NAX, NAX, "p1", "c1") }

SelfCache(mode, vp, vc, ds, rs) ==
  all(StoreOf(Network("N", mode) \cup Context("N", "A", "X")
              \cup Capability(NAX, "provider", "p1", vp)
              \cup Capability(NAX, "consumer", "p1", vc)
              \cup UNION ds \cup UNION rs))

InitSelf ==
  /\ EngineUnused
  /\ \E mode \in SelfModes, vp \in SelfVersions, vc \in SelfVersions,
        ds \in SUBSET SelfDefaults, rs \in SUBSET SelfRecords, n \in 0..MaxStartId :
       input = [cache |-> SelfCache(mode, vp, vc, ds, rs), n |-> n]
  /\ output = <<>>

ApplySelf ==
  /\ output = <<>>
  /\ \E b \in {build(input.cache)} :
       output' = <<[add |-> b.add, run |-> connections(input.cache, b.add, input.n)]>>
  /\ UNCHANGED <<input, engineVars>>

SpecSelf == InitSelf /\ [][ApplySelf]_vars

\* The ids under which the keys hold the record of the given role of N/A/X
\* that points at N/A/X itself.
SelfIds(pairs, role, pointer) ==
  { k[10] : k \in { l \in DOMAIN pairs :
                      /\ Len(l) = 11
                      /\ SubSeq(l, 1, 9) = NAX \o <<role, "p1", "connections">>
                      /\ l[11] = pointer
                      /\ pairs[l] = NAX } }

\* The cache as a function, and the function the puts of a run make.
SelfBefore == valueOf(input.cache)

SelfPuts ==
  [k \in { output[1].run.puts[i].key : i \in 1..Len(output[1].run.puts) } |->
     output[1].run.puts[CHOOSE i \in 1..Len(output[1].run.puts) :
                          output[1].run.puts[i].key = k].value]

SelfVersionsEqual ==
  cacheGet(input.cache, NAX \o <<"provider", "p1", "version">>)
    = cacheGet(input.cache, NAX \o <<"consumer", "p1", "version">>)

\* C40: when N/A/X declares provider p1 and consumer p1 with equal versions,
\* build() emits the one candidate that pairs N/A/X with itself, and with no
\* record of it in the cache connections() puts the provider-side record and
\* the consumer-side record under the prefix of N/A/X, each with N/A/X as its
\* value, both under the one id it generates; with one of the two records
\* there it puts the other under the id of the first.  With different
\* versions there is no candidate.
SelfPairing ==
  output # <<>> =>
    IF SelfVersionsEqual
      THEN /\ Len(output[1].add) = 1
           /\ output[1].add[1].provider = NAX
           /\ output[1].add[1].consumer = NAX
           /\ \A i \in 1..Len(output[1].run.puts) :
                SubSeq(output[1].run.puts[i].key, 1, 6) = NAX
           /\ \E id \in Strings :
                /\ SelfIds(SelfBefore, "provider", "consumer")
                     \cup SelfIds(SelfPuts, "provider", "consumer") = {id}
                /\ SelfIds(SelfBefore, "consumer", "provider")
                     \cup SelfIds(SelfPuts, "consumer", "provider") = {id}
                /\ SelfIds(SelfBefore, "provider", "consumer")
                     \cap SelfIds(SelfPuts, "provider", "consumer") = {}
                /\ SelfIds(SelfBefore, "consumer", "provider")
                     \cap SelfIds(SelfPuts, "consumer", "provider") = {}
                /\ (SelfIds(SelfBefore, "provider", "consumer") = {}
                      /\ SelfIds(SelfBefore, "consumer", "provider") = {})
                     => id = IdNames[input.n + 1]
      ELSE output[1].add = <<>> /\ output[1].run.puts = <<>>

\* N/A/X was paired with itself on a cache without a record, and both
\* records are among the puts under the generated id.
SelfPairingWitness ==
  /\ output # <<>>
  /\ SelfVersionsEqual
  /\ SelfIds(SelfBefore, "provider", "consumer") = {}
  /\ SelfIds(SelfBefore, "consumer", "provider") = {}
  /\ SelfIds(SelfPuts, "provider", "consumer") = {IdNames[input.n + 1]}
  /\ SelfIds(SelfPuts, "consumer", "provider") = {IdNames[input.n + 1]}

====
